---- MODULE Spec2Model ----
(***************************************************************************)
(* Chat-completion orchestration (src/app.py) and the conversation history *)
(* store client (src/backend/history/cosmosdbservice.py).                  *)
(*                                                                         *)
(* Text is a sequence of one-character strings, so that concatenation and  *)
(* JSON parsing are computed.  Python's None is the string None where the  *)
(* slot otherwise holds a string, the empty sequence where it holds text   *)
(* or an optional dict, and "" for an absent tool-call id.                 *)
(***************************************************************************)
EXTENDS Integers, Sequences, FiniteSets, TLC

VARIABLES
    \* ---- configuration and process-wide state (src/app.py)
    fc_enabled,                 \* app_settings.azure_openai.function_call_azure_functions_enabled
    datasource,                 \* app_settings.datasource is configured
    azure_openai_tools,         \* names of the tools in azure_openai_tools
    azure_openai_available_tools,
    \* ---- one chat request
    pc,                         \* position of the request's task
    client_messages,            \* the message list the client submitted
    request_messages,           \* request_body["messages"]
    requests,                   \* provider requests sent so far (model_args)
    tool_log,                   \* calls of openai_remote_azure_function_call
    http_status,                \* status of the client-visible response, 0: none yet
    \* ---- streaming path
    completionChunk,            \* chunk being handled by generate()
    functionCompletionChunk,    \* chunk of the follow-up stream being yielded by generate()
    stream_state,               \* value returned by process_function_call_stream
    n_consumed,                 \* chunks taken from the first provider stream
    n_cont,                     \* chunks taken from the current continuation stream
    emitted,                    \* what generate() has yielded, in order
    tool_calls,                 \* AzureOpenaiFunctionCallStreamState fields
    tool_name,
    tool_arguments_stream,
    current_tool_call,
    function_messages,
    streaming_state,
    intended,                   \* the calls the provider has streamed so far
    scenario,                   \* chunks consumed so far that follow ScenarioChunks, -1: off
    \* ---- buffered path
    responses,                  \* provider responses received, in order
    result,                     \* index of the response whose formatting is returned, 0: none
    \* ---- conversation history (src/backend/history/cosmosdbservice.py)
    items,                      \* the container: item id -> item, NoItem when absent
    clock,                      \* datetime.utcnow()
    enable_message_feedback,    \* CosmosConversationClient.enable_message_feedback
    used,                       \* ids that have been generated or supplied so far
    last,                       \* the history request answered last and its answer
    last_append,                \* per id: createdAt written by the latest successful append, -1: none
    n_appends,                  \* per id: successful appends by the conversation's owner
    n_requests,                 \* history requests answered so far
    any_delete,                 \* some request has deleted an item
    all_fresh,                  \* every create_message so far was given an unused id
    \* ---- redaction in prepare_model_args
    parameters,                 \* extra_body["data_sources"][0]["parameters"], <<>>: none
    model_args_clean,           \* the same field of model_args_clean, <<>>: none
    \* ---- startup and the history requests in flight
    cosmos_db_ready,            \* the asyncio.Event cosmos_db_ready is set
    cosmos_conversation_client, \* app.cosmos_conversation_client: "client" or None
    inflight,                   \* per request: its route, where its handler is, its status
    \* ---- a delete request taken step by step
    running,                    \* its route, caller, position, and the lists it iterates over
    \* ---- create_message calls taken step by step
    appending,                  \* per call: its position, its message, the conversation it read
    \* ---- a rename request taken step by step
    renaming                    \* its caller, position, title, and the conversation it read

chatVars == <<fc_enabled, datasource, azure_openai_tools, azure_openai_available_tools,
              pc, client_messages, request_messages, requests, tool_log, http_status>>
streamVars == <<completionChunk, functionCompletionChunk, stream_state, n_consumed, n_cont, emitted, tool_calls,
                tool_name, tool_arguments_stream, current_tool_call, function_messages,
                streaming_state, intended, scenario>>
bufferedVars == <<responses, result>>
storeVars == <<items, clock, enable_message_feedback, used, last, last_append, n_appends,
               n_requests, any_delete, all_fresh>>
redactVars == <<parameters, model_args_clean>>
serveVars == <<cosmos_db_ready, cosmos_conversation_client, inflight>>
stepVars == <<running, appending, renaming>>
vars == <<chatVars, streamVars, bufferedVars, storeVars, redactVars, serveVars, stepVars>>

None == "None"

\* ------------------------------------------------------------------ bounds
MaxChunks == 4      \* chunks of the first provider stream
MaxCont == 2        \* chunks of one continuation stream
MaxCalls == 2       \* tool calls in one buffered provider response
MaxIds == 3         \* item ids (uuids and caller-supplied ids) in play
MaxTime == 1        \* latest clock reading
MaxRequests == 2     \* history requests in one behaviour

\* -------------------------------------------------------------------- text
TextA == <<"{", "\"", "a", "\"">>           \* {"a"
TextB == <<"\"", ":", "1", "}">>            \* ":1}
TextC == <<":", "1", "}">>                  \* :1}
TextObj == <<"{", "}">>                     \* {}

Min(S) == CHOOSE m \in S : \A n \in S : m <= n

\* json.loads on the alphabet { } " a : 1 : the index after the string that
\* starts at s[i], 0 when there is none.
JsonString(s, i) ==
    LET closes == {j \in (i + 1)..Len(s) : s[j] = "\""}
    IN  IF i <= Len(s) /\ s[i] = "\"" /\ closes # {} THEN Min(closes) + 1 ELSE 0

JsonNumber(s, i) ==
    LET stops == {j \in i..(Len(s) + 1) : j = Len(s) + 1 \/ s[j] # "1"}
    IN  IF Min(stops) > i THEN Min(stops) ELSE 0

RECURSIVE JsonValue(_, _)
JsonValue(s, i) ==
    IF i > Len(s) THEN 0
    ELSE IF s[i] = "1" THEN JsonNumber(s, i)
    ELSE IF s[i] = "\"" THEN JsonString(s, i)
    ELSE IF s[i] = "{" THEN
        IF i + 1 <= Len(s) /\ s[i + 1] = "}" THEN i + 2
        ELSE LET k == JsonString(s, i + 1)
             IN  IF k = 0 \/ k > Len(s) \/ s[k] # ":" THEN 0
                 ELSE LET v == JsonValue(s, k + 1)
                      IN  IF v = 0 \/ v > Len(s) \/ s[v] # "}" THEN 0 ELSE v + 1
    ELSE 0

json_loads_ok(s) == JsonValue(s, 1) = Len(s) + 1

\* ------------------------------------------------------------ tool invoker
RemoteTools == <<"f", "g">>                 \* the catalog the tools endpoint serves
ToolNames == {"f", "g", "h"}                \* h is in no catalog
ToolReply(function_name) == <<"reply", function_name>>

\* openai_remote_azure_function_call: what one call ends in. endpoint_ok is
\* whether the function-execution endpoint answers with a success status.
openai_remote_azure_function_call(function_name, function_args, endpoint_ok) ==
    IF ~fc_enabled THEN [outcome |-> "skipped", text |-> <<>>]
    ELSE IF ~json_loads_ok(function_args) THEN [outcome |-> "bad_json", text |-> <<>>]
    ELSE IF ~endpoint_ok THEN [outcome |-> "http_error", text |-> <<>>]
    ELSE [outcome |-> "ok", text |-> ToolReply(function_name)]

\* A caller that goes on whatever the call ended in.
ReturnedAny(call) == TRUE
\* The call returns a text (or None); otherwise it raises.
Returned(call) == call.outcome \in {"ok", "skipped"}

LogEntry(function_name, function_args, call) ==
    [name |-> function_name, arguments |-> function_args, outcome |-> call.outcome]

\* ---------------------------------------------------------- provider chunks
Fragment(id, name, arguments) == [id |-> id, name |-> name, arguments |-> arguments]
StartFragments == {Fragment("t1", "f", <<>>), Fragment("t1", "f", TextA),
                   Fragment("t2", "g", <<>>)}
ContFragments == {Fragment("", "", TextA), Fragment("", "", TextB), Fragment("", "", TextC)}
Fragments == StartFragments \cup ContFragments

NoChoicesChunk == [has_choices |-> FALSE, tool_calls_none |-> TRUE, tool_calls |-> <<>>]
PlainChunk == [has_choices |-> TRUE, tool_calls_none |-> TRUE, tool_calls |-> <<>>]
EmptyListChunk == [has_choices |-> TRUE, tool_calls_none |-> FALSE, tool_calls |-> <<>>]
ToolChunk(frags) == [has_choices |-> TRUE, tool_calls_none |-> FALSE, tool_calls |-> frags]
Chunks == {NoChoicesChunk, PlainChunk, EmptyListChunk}
          \cup {ToolChunk(<<x>>) : x \in Fragments}
          \cup {ToolChunk(<<Fragment("t1", "f", <<>>), Fragment("", "", TextObj)>>)}
ContinuationChunks == {PlainChunk, ToolChunk(<<Fragment("t1", "f", TextObj)>>)}

\* The chunk sequence of the streaming scenario: no tool call; a fragment with
\* id t1, name f and text {"a" ; an id-less fragment with text ":1} ; no tool
\* call fields.
ScenarioChunks == <<PlainChunk, ToolChunk(<<Fragment("t1", "f", TextA)>>),
                    ToolChunk(<<Fragment("", "", TextB)>>), PlainChunk>>

\* ------------------------------------------- process_function_call_stream
StreamFields == [tool_calls |-> tool_calls, tool_name |-> tool_name,
                 tool_arguments_stream |-> tool_arguments_stream,
                 current_tool_call |-> current_tool_call]

WithArguments(call, arguments) ==
    [tool_id |-> call.tool_id, tool_name |-> call.tool_name, tool_arguments |-> arguments]

\* One iteration of "for tool_call_chunk in response_message.tool_calls".
ApplyFragment(st, fr) ==
    IF fr.id # "" THEN
        LET flushed ==
                IF st.current_tool_call # <<>> THEN
                    [st EXCEPT !.tool_arguments_stream = <<>>,
                               !.tool_name = "",
                               !.tool_calls = Append(@, WithArguments(st.current_tool_call[1],
                                                 st.tool_arguments_stream \o fr.arguments))]
                ELSE st
        IN  [flushed EXCEPT !.current_tool_call =
                <<[tool_id |-> fr.id,
                   tool_name |-> IF flushed.tool_name = "" THEN fr.name
                                 ELSE flushed.tool_name]>>]
    ELSE [st EXCEPT !.tool_arguments_stream = @ \o fr.arguments]

RECURSIVE ApplyFragments(_, _)
ApplyFragments(st, frags) ==
    IF frags = <<>> THEN st ELSE ApplyFragments(ApplyFragment(st, Head(frags)), Tail(frags))

\* The calls the provider streamed: a fragment with an id starts a call, every
\* fragment's text belongs to the call it is a fragment of.
IntendFragment(it, fr) ==
    IF fr.id # "" THEN
        [it EXCEPT !.calls = Append(@, [tool_id |-> fr.id, tool_name |-> fr.name,
                                        tool_arguments |-> fr.arguments])]
    ELSE IF it.calls = <<>> THEN [it EXCEPT !.wellformed = FALSE]
    ELSE [it EXCEPT !.calls[Len(it.calls)].tool_arguments = @ \o fr.arguments]

RECURSIVE IntendFragments(_, _)
IntendFragments(it, frags) ==
    IF frags = <<>> THEN it ELSE IntendFragments(IntendFragment(it, Head(frags)), Tail(frags))

\* The loop "for tool_call in function_call_stream_state.tool_calls" when the
\* endpoint fails at call number failAt (0: never): the calls made, the
\* messages appended, and whether it raised.
FirstBad(calls, failAt) ==
    LET bad == {i \in 1..Len(calls) :
                    ~Returned(openai_remote_azure_function_call(
                        calls[i].tool_name, calls[i].tool_arguments, i # failAt))}
    IN  IF bad = {} THEN 0 ELSE Min(bad)

StreamCallMessages(tool_call, tool_response) ==
    << [role |-> "assistant",
        function_call |-> [name |-> tool_call.tool_name, arguments |-> tool_call.tool_arguments],
        content |-> None],
       [tool_call_id |-> tool_call.tool_id, role |-> "function",
        name |-> tool_call.tool_name, content |-> tool_response] >>

RECURSIVE StreamMessages(_, _)
StreamMessages(calls, n) ==
    IF n = 0 THEN <<>>
    ELSE StreamMessages(calls, n - 1)
         \o StreamCallMessages(calls[n],
                openai_remote_azure_function_call(calls[n].tool_name,
                                                  calls[n].tool_arguments, TRUE).text)

InvokeStreamCalls(calls, failAt) ==
    LET bad == FirstBad(calls, failAt)
        made == IF bad = 0 THEN Len(calls) ELSE bad
        done == IF bad = 0 THEN Len(calls) ELSE bad - 1
    IN  [log |-> [i \in 1..made |->
                    LogEntry(calls[i].tool_name, calls[i].tool_arguments,
                             openai_remote_azure_function_call(
                                 calls[i].tool_name, calls[i].tool_arguments, i # failAt))],
         messages |-> StreamMessages(calls, done),
         raised |-> bad # 0]

\* ------------------------------------------------------ request building
SystemMessage == [role |-> "system", content |-> "system_message"]
UserMessage(text) == [role |-> "user", content |-> text]
AssistantMessage(text) == [role |-> "assistant", content |-> text]
ToolMessage(text) == [role |-> "tool", content |-> text]
FunctionMessage(name, text) == [role |-> "function", name |-> name, content |-> text]

\* A builder that copies the user's messages only.
PrepareUserMessage(message) ==
    IF message.role = "user" THEN <<[role |-> "user", content |-> message.content]>> ELSE <<>>

\* The "match message[role]" of prepare_model_args: the messages one client
\* message contributes to the provider request.
PrepareMessage(message) ==
    IF message.role = "user" THEN <<[role |-> "user", content |-> message.content]>>
    ELSE IF message.role \in {"assistant", "function", "tool"} THEN
        <<[k \in DOMAIN message \cap {"role", "name", "function_call", "content"}
              |-> message[k]]>>
    ELSE <<>>

RECURSIVE PrepareMessages(_)
PrepareMessages(request_msgs) ==
    IF request_msgs = <<>> THEN <<>>
    ELSE PrepareMessage(Head(request_msgs)) \o PrepareMessages(Tail(request_msgs))

\* A test that lets any built list through.
LastIsAny(messages) == TRUE
\* "if len(messages) > 0: if messages[-1]["role"] == "user":"
LastIsUser(messages) == Len(messages) > 0 /\ messages[Len(messages)].role = "user"

prepare_model_args(request_msgs) ==
    LET messages == (IF datasource THEN <<>> ELSE <<SystemMessage>>)
                    \o PrepareMessages(request_msgs)
        last_is_user == LastIsUser(messages)
        with_tools == last_is_user /\ fc_enabled /\ Len(azure_openai_tools) > 0
    IN  [messages |-> messages,
         has_tools |-> with_tools,
         tools |-> IF with_tools THEN azure_openai_tools ELSE <<>>,
         has_extra_body |-> last_is_user /\ datasource]

\* send_chat_request up to the provider call: the filtered message list that
\* replaces request_body["messages"], and the request built from it.
FilterToolMessages(request_msgs) == SelectSeq(request_msgs, LAMBDA m : m.role # "tool")

\* The catalog part of init_openai_client, run by every send_chat_request.
\* catalog_ok: the tools endpoint answered 200.
ToolsAfterInit(catalog_ok) ==
    IF fc_enabled /\ catalog_ok THEN azure_openai_tools \o RemoteTools ELSE azure_openai_tools
AvailableAfterInit(catalog_ok) ==
    IF fc_enabled /\ catalog_ok
    THEN azure_openai_available_tools \o ToolsAfterInit(catalog_ok)
    ELSE azure_openai_available_tools

\* A send_chat_request that initialises the client first and builds the
\* request from the catalog as it is afterwards.
send_chat_request_initialised(msgs, catalog_ok) ==
    /\ request_messages' = FilterToolMessages(msgs)
    /\ LET built == prepare_model_args(FilterToolMessages(msgs))
           with_tools == /\ LastIsUser(built.messages) /\ fc_enabled
                         /\ Len(ToolsAfterInit(catalog_ok)) > 0
       IN  requests' = Append(requests,
                              [built EXCEPT !.has_tools = with_tools,
                                            !.tools = IF with_tools
                                                      THEN ToolsAfterInit(catalog_ok)
                                                      ELSE <<>>])
    /\ azure_openai_tools' = ToolsAfterInit(catalog_ok)
    /\ azure_openai_available_tools' = AvailableAfterInit(catalog_ok)

\* send_chat_request(request_body, ...) on request_body["messages"] = msgs.
\* provider: "ok", or the provider call raises with or without a status code.
send_chat_request(msgs, catalog_ok) ==
    /\ request_messages' = FilterToolMessages(msgs)
    /\ requests' = Append(requests, prepare_model_args(FilterToolMessages(msgs)))
    /\ azure_openai_tools' = ToolsAfterInit(catalog_ok)
    /\ azure_openai_available_tools' = AvailableAfterInit(catalog_ok)

\* What the provider call does: it returns, or it raises an exception that
\* has a status_code attribute or has none.
Returns == [raised |-> FALSE]
StatusCodes == {400, 429}
Raises == {[raised |-> TRUE]} \cup {[raised |-> TRUE, status_code |-> c] : c \in StatusCodes}
ProviderOutcomes == {Returns} \cup Raises

\* An except clause that answers 500 whatever was raised.
ErrorStatusGeneric(ex) == 500
\* conversation_internal's except clause.
ErrorStatus(ex) == IF "status_code" \in DOMAIN ex THEN ex.status_code ELSE 500

\* ---------------------------------------------------------- streaming path
\* stream_chat_request: the first provider request, before generate() runs.
StreamSend(catalog_ok, provider) ==
    /\ pc = "stream_send"
    /\ send_chat_request(request_messages, catalog_ok)
    /\ IF provider = Returns
       THEN pc' = "fetch" /\ http_status' = 200
       ELSE pc' = "failed" /\ http_status' = ErrorStatus(provider)
    /\ UNCHANGED <<fc_enabled, datasource, client_messages, tool_log, streamVars,
                   bufferedVars, storeVars,
                   redactVars, serveVars, stepVars>>

StreamSendFirst ==
    \E catalog_ok \in BOOLEAN, provider \in ProviderOutcomes : StreamSend(catalog_ok, provider)

\* A generator that puts the chunk ahead of what it already sent.
YieldAhead(out, entry) == <<entry>> \o out
\* "yield format_stream_response(chunk, ...)": the chunk goes to the client
\* behind everything already sent. An entry names the chunk by its stream and
\* its position in it, not by its content.
Yield(out, entry) == Append(out, entry)

\* "async for completionChunk in response": the provider delivers a chunk.
Fetch ==
    /\ pc = "fetch"
    /\ n_consumed < MaxChunks
    /\ \E chunk \in Chunks :
        /\ completionChunk' = chunk
        /\ scenario' = IF scenario >= 0 /\ scenario < Len(ScenarioChunks)
                          /\ chunk = ScenarioChunks[scenario + 1]
                       THEN scenario + 1 ELSE -1
    /\ n_consumed' = n_consumed + 1
    /\ pc' = IF fc_enabled THEN "process" ELSE "forward"
    /\ UNCHANGED <<fc_enabled, datasource, azure_openai_tools, azure_openai_available_tools,
                   client_messages, request_messages, requests, tool_log, http_status,
                   functionCompletionChunk, stream_state, n_cont,
                   emitted, tool_calls, tool_name, tool_arguments_stream, current_tool_call,
                   function_messages, streaming_state, intended, bufferedVars, storeVars,
                   redactVars, serveVars, stepVars>>

\* A generator that stores the accumulated tool call as a message when the
\* stream ends.
EndOfStreamStored ==
    /\ pc = "fetch"
    /\ pc' = "done"
    /\ items' = [items EXCEPT ![1] = [type |-> "message", role |-> "tool"]]
    /\ UNCHANGED <<fc_enabled, datasource, azure_openai_tools, azure_openai_available_tools,
                   client_messages, request_messages, requests, tool_log, http_status,
                   streamVars, bufferedVars, clock, enable_message_feedback, used, last,
                   last_append, n_appends, n_requests, any_delete, all_fresh,
                   redactVars, serveVars, stepVars>>

\* The first provider stream ends.
EndOfStream ==
    /\ pc = "fetch"
    /\ pc' = "done"
    /\ UNCHANGED <<fc_enabled, datasource, azure_openai_tools, azure_openai_available_tools,
                   client_messages, request_messages, requests, tool_log, http_status, streamVars, bufferedVars, storeVars,
                   redactVars, serveVars, stepVars>>

\* generate() without function calling: every chunk is yielded.
Forward ==
    /\ pc = "forward"
    /\ emitted' = Yield(emitted, [src |-> "first", idx |-> n_consumed])
    /\ pc' = "fetch"
    /\ UNCHANGED <<fc_enabled, datasource, azure_openai_tools, azure_openai_available_tools,
                   client_messages, request_messages, requests, tool_log, http_status, completionChunk, functionCompletionChunk,
                   stream_state, n_consumed, n_cont, tool_calls, tool_name,
                   tool_arguments_stream, current_tool_call, function_messages,
                   streaming_state, intended, scenario, bufferedVars, storeVars,
                   redactVars, serveVars, stepVars>>

\* process_function_call_stream, first branch: the delta carries fragments.
ProcessFragments ==
    /\ pc = "process"
    /\ completionChunk.has_choices
    /\ completionChunk.tool_calls # <<>>
    /\ streaming_state \in {"INITIAL", "STREAMING"}
    /\ LET st == ApplyFragments(StreamFields, completionChunk.tool_calls)
       IN  /\ tool_calls' = st.tool_calls
           /\ tool_name' = st.tool_name
           /\ tool_arguments_stream' = st.tool_arguments_stream
           /\ current_tool_call' = st.current_tool_call
    /\ streaming_state' = "STREAMING"
    /\ intended' = IntendFragments(intended, completionChunk.tool_calls)
    /\ stream_state' = None
    /\ pc' = "dispatch"
    /\ UNCHANGED <<fc_enabled, datasource, azure_openai_tools, azure_openai_available_tools,
                   client_messages, request_messages, requests, tool_log, http_status, completionChunk, functionCompletionChunk,
                   n_consumed, n_cont, emitted, function_messages, scenario, bufferedVars, storeVars,
                   redactVars, serveVars, stepVars>>

\* process_function_call_stream, second branch: tool_calls is None while
\* STREAMING. The in-progress call is flushed and every call is invoked.
ProcessCompletion ==
    /\ pc = "process"
    /\ completionChunk.has_choices
    /\ completionChunk.tool_calls_none
    /\ streaming_state = "STREAMING"
    /\ IF current_tool_call = <<>>
       THEN \* current_tool_call["tool_arguments"] on None raises TypeError
            /\ pc' = "raised"
            /\ UNCHANGED <<tool_calls, tool_log, function_messages, streaming_state,
                           stream_state>>
       ELSE LET calls == Append(tool_calls,
                                WithArguments(current_tool_call[1], tool_arguments_stream))
            IN  \E failAt \in 0..Len(calls) :
                  LET run == InvokeStreamCalls(calls, failAt)
                  IN  /\ tool_calls' = calls
                      /\ tool_log' = tool_log \o run.log
                      /\ function_messages' = function_messages \o run.messages
                      /\ IF run.raised
                         THEN /\ pc' = "raised"
                              /\ UNCHANGED <<streaming_state, stream_state>>
                         ELSE /\ pc' = "dispatch"
                              /\ streaming_state' = "COMPLETED"
                              /\ stream_state' = "COMPLETED"
    /\ current_tool_call' = IF current_tool_call = <<>> THEN <<>>
                            ELSE <<WithArguments(current_tool_call[1], tool_arguments_stream)>>
    /\ UNCHANGED <<fc_enabled, datasource, azure_openai_tools, azure_openai_available_tools,
                   client_messages, request_messages, requests, http_status, completionChunk, functionCompletionChunk, n_consumed,
                   n_cont, emitted, tool_name, tool_arguments_stream, intended, scenario,
                   bufferedVars, storeVars,
                   redactVars, serveVars, stepVars>>

\* A processor that starts over when a chunk arrives after completion.
ProcessOtherRestart ==
    /\ pc = "process"
    /\ IF ~completionChunk.has_choices THEN stream_state' = None
       ELSE /\ ~(completionChunk.tool_calls # <<>>
                 /\ streaming_state \in {"INITIAL", "STREAMING"})
            /\ ~(completionChunk.tool_calls_none /\ streaming_state = "STREAMING")
            /\ stream_state' = streaming_state
    /\ streaming_state' = IF streaming_state = "COMPLETED" THEN "INITIAL" ELSE streaming_state
    /\ pc' = "dispatch"
    /\ UNCHANGED <<fc_enabled, datasource, azure_openai_tools, azure_openai_available_tools,
                   client_messages, request_messages, requests, tool_log, http_status, completionChunk, functionCompletionChunk,
                   n_consumed, n_cont, emitted, tool_calls, tool_name, tool_arguments_stream,
                   current_tool_call, function_messages, intended,
                   scenario, bufferedVars, storeVars,
                   redactVars, serveVars, stepVars>>

\* process_function_call_stream, else branch, and the chunk without choices
\* (the function falls off its end and returns None).
ProcessOther ==
    /\ pc = "process"
    /\ IF ~completionChunk.has_choices THEN stream_state' = None
       ELSE /\ ~(completionChunk.tool_calls # <<>>
                 /\ streaming_state \in {"INITIAL", "STREAMING"})
            /\ ~(completionChunk.tool_calls_none /\ streaming_state = "STREAMING")
            /\ stream_state' = streaming_state
    /\ pc' = "dispatch"
    /\ UNCHANGED <<fc_enabled, datasource, azure_openai_tools, azure_openai_available_tools,
                   client_messages, request_messages, requests, tool_log, http_status, completionChunk, functionCompletionChunk,
                   n_consumed, n_cont, emitted, tool_calls, tool_name, tool_arguments_stream,
                   current_tool_call, function_messages, streaming_state, intended,
                   scenario, bufferedVars, storeVars,
                   redactVars, serveVars, stepVars>>

\* generate(): if stream_state == "INITIAL": yield the chunk.
YieldChunk ==
    /\ pc = "dispatch"
    /\ stream_state = "INITIAL"
    /\ emitted' = Yield(emitted, [src |-> "first", idx |-> n_consumed])
    /\ pc' = "fetch"
    /\ UNCHANGED <<fc_enabled, datasource, azure_openai_tools, azure_openai_available_tools,
                   client_messages, request_messages, requests, tool_log, http_status, completionChunk, functionCompletionChunk,
                   stream_state, n_consumed, n_cont, tool_calls, tool_name,
                   tool_arguments_stream, current_tool_call, function_messages,
                   streaming_state, intended, scenario, bufferedVars, storeVars,
                   redactVars, serveVars, stepVars>>

\* generate(): if stream_state == "COMPLETED": extend the messages and send
\* the follow-up request.
Continue ==
    /\ pc = "dispatch"
    /\ stream_state = "COMPLETED"
    /\ \E catalog_ok \in BOOLEAN, provider \in ProviderOutcomes :
        /\ send_chat_request(request_messages \o function_messages, catalog_ok)
        /\ pc' = IF provider = Returns THEN "continuation" ELSE "raised"
    /\ n_cont' = 0
    /\ UNCHANGED <<fc_enabled, datasource, client_messages, tool_log, http_status,
                   completionChunk, functionCompletionChunk, stream_state, n_consumed, emitted, tool_calls, tool_name,
                   tool_arguments_stream, current_tool_call, function_messages,
                   streaming_state, intended, scenario, bufferedVars, storeVars,
                   redactVars, serveVars, stepVars>>

\* generate(): neither INITIAL nor COMPLETED: the chunk is dropped.
Suppress ==
    /\ pc = "dispatch"
    /\ stream_state \notin {"INITIAL", "COMPLETED"}
    /\ pc' = "fetch"
    /\ UNCHANGED <<fc_enabled, datasource, azure_openai_tools, azure_openai_available_tools,
                   client_messages, request_messages, requests, tool_log, http_status, streamVars, bufferedVars, storeVars,
                   redactVars, serveVars, stepVars>>

\* A follow-up loop that hands each chunk to the accumulator: a chunk with
\* tool-call fragments is held back and starts a new accumulation.
ContinuationChunkProcessed ==
    /\ pc = "continuation"
    /\ n_cont < MaxCont
    /\ \E chunk \in ContinuationChunks :
        /\ functionCompletionChunk' = chunk
        /\ IF chunk.tool_calls # <<>>
           THEN /\ streaming_state' = "STREAMING"
                /\ UNCHANGED emitted
           ELSE /\ emitted' = Yield(emitted, [src |-> "continuation", idx |-> n_cont + 1,
                                              after |-> n_consumed])
                /\ UNCHANGED streaming_state
    /\ n_cont' = n_cont + 1
    /\ UNCHANGED <<chatVars, completionChunk, stream_state, n_consumed, tool_calls, tool_name,
                   tool_arguments_stream, current_tool_call, function_messages,
                   intended, scenario, bufferedVars, storeVars,
                   redactVars, serveVars, stepVars>>

\* "async for functionCompletionChunk in function_response": yield it,
\* unprocessed, whatever it carries.
ContinuationChunk ==
    /\ pc = "continuation"
    /\ n_cont < MaxCont
    /\ \E chunk \in ContinuationChunks : functionCompletionChunk' = chunk
    /\ emitted' = Yield(emitted, [src |-> "continuation", idx |-> n_cont + 1,
                                  after |-> n_consumed])
    /\ n_cont' = n_cont + 1
    /\ UNCHANGED <<chatVars, completionChunk, stream_state, n_consumed, tool_calls, tool_name,
                   tool_arguments_stream, current_tool_call, function_messages,
                   streaming_state, intended, scenario, bufferedVars, storeVars,
                   redactVars, serveVars, stepVars>>

\* The follow-up stream ends; its loop variable is not read again, and what
\* it held is not kept.
ContinuationEnd ==
    /\ pc = "continuation"
    /\ pc' = "fetch"
    /\ functionCompletionChunk' = NoChoicesChunk
    /\ UNCHANGED <<fc_enabled, datasource, azure_openai_tools, azure_openai_available_tools,
                   client_messages, request_messages, requests, tool_log, http_status,
                   completionChunk, stream_state, n_consumed, n_cont, emitted, tool_calls,
                   tool_name, tool_arguments_stream, current_tool_call, function_messages,
                   streaming_state, intended, scenario, bufferedVars, storeVars,
                   redactVars, serveVars, stepVars>>

InitialMessages == { <<UserMessage("q1")>>,
                     <<UserMessage("q1"), FunctionMessage("f", "r0"), ToolMessage("cit"),
                       AssistantMessage("a1"), UserMessage("q2")>> }

InitChat ==
    /\ fc_enabled \in BOOLEAN
    /\ datasource \in BOOLEAN
    /\ \E populated \in BOOLEAN :
        /\ azure_openai_tools = IF populated /\ fc_enabled THEN RemoteTools ELSE <<>>
        /\ azure_openai_available_tools = IF populated /\ fc_enabled THEN RemoteTools ELSE <<>>
    /\ client_messages \in InitialMessages
    /\ request_messages = client_messages
    /\ requests = <<>>
    /\ tool_log = <<>>
    /\ http_status = 0

InitStreamFields ==
    /\ completionChunk = NoChoicesChunk
    /\ functionCompletionChunk = NoChoicesChunk
    /\ stream_state = None
    /\ n_consumed = 0
    /\ n_cont = 0
    /\ emitted = <<>>
    /\ tool_calls = <<>>
    /\ tool_name = ""
    /\ tool_arguments_stream = <<>>
    /\ current_tool_call = <<>>
    /\ function_messages = <<>>
    /\ streaming_state = "INITIAL"
    /\ intended = [calls |-> <<>>, wellformed |-> TRUE]
    /\ scenario = 0

InitBufferedFields ==
    /\ responses = <<>>
    /\ result = 0

\* ------------------------------------------------ the container, when empty
Ids == 1..MaxIds
Users == {"A", "B"}
NoItem == [type |-> "none"]

InitRedactFields ==
    /\ parameters = <<>>
    /\ model_args_clean = <<>>

Slots == 1..MaxRequests

\* No create_message call is under way.
NotAppending == [at |-> "idle", user |-> None, conversation_id |-> 0, message |-> <<>>,
                 conversation |-> <<>>, resp |-> None, stopped |-> None]

\* No rename request is under way.
NotRenaming == [at |-> "idle", user |-> None, conversation_id |-> 0, title |-> "",
                conversation |-> <<>>, status |-> 0]

\* No delete request is under way.
NotRunning == [route |-> None, user |-> None, at |-> "idle", conversations |-> <<>>,
               messages |-> <<>>, status |-> 0]

InitStoreFields ==
    /\ running = NotRunning
    /\ appending = [s \in Slots |-> NotAppending]
    /\ renaming = NotRenaming
    /\ items = [id \in Ids |-> NoItem]
    /\ clock = 0
    /\ used = {}
    /\ last = [op |-> "none", status |-> 0, found |-> FALSE, changed |-> FALSE]
    /\ last_append = [id \in Ids |-> -1]
    /\ n_appends = [id \in Ids |-> 0]
    /\ n_requests = 0
    /\ any_delete = FALSE
    /\ all_fresh = TRUE

\* ------------------------------------------------ the application, started
\* The requests of one behaviour and the routes under /history.
HistoryRoutes == {"generate", "update", "message_feedback", "delete", "list", "read",
                  "rename", "delete_all", "clear"}
Idle == [route |-> None, at |-> "idle", status |-> 0]

\* create_app.init has run and init_cosmosdb_client answered with a client.
ServeStarted ==
    /\ cosmos_db_ready = TRUE
    /\ cosmos_conversation_client = "client"
    /\ inflight = [s \in Slots |-> Idle]

InitStream ==
    /\ InitChat /\ InitStreamFields /\ InitBufferedFields /\ InitStoreFields /\ InitRedactFields
    /\ ServeStarted
    /\ enable_message_feedback = FALSE
    /\ pc = "stream_send"

NextStream ==
    \/ StreamSendFirst
    \/ Fetch
    \/ EndOfStream
    \/ Forward
    \/ ProcessFragments
    \/ ProcessCompletion
    \/ ProcessOther
    \/ YieldChunk
    \/ Continue
    \/ Suppress
    \/ ContinuationChunk
    \/ ContinuationEnd

SpecStream == InitStream /\ [][NextStream]_vars

\* ----------------------------------------------------------- buffered path
ToolCall(name, arguments) == [name |-> name, arguments |-> arguments]
ResponseCalls == {ToolCall(n, a) : n \in ToolNames, a \in {TextObj, TextC}}
RECURSIVE CallLists(_)
CallLists(n) ==
    IF n = 0 THEN {<<>>}
    ELSE CallLists(n - 1)
         \cup {Append(l, c) : l \in {x \in CallLists(n - 1) : Len(x) = n - 1},
                              c \in ResponseCalls}
\* response.choices[0].message of a provider response: its role and tool calls
\* (None and the empty list are both no tool calls).
Response(calls) == [role |-> "assistant", tool_calls |-> calls]
FirstResponses == {Response(l) : l \in CallLists(MaxCalls)}
SecondResponses == {Response(<<>>), Response(<<ToolCall("f", TextObj)>>)}

BufferedCallMessagesShort(role, tool_call, function_response) ==
    << [role |-> "function", name |-> tool_call.name, content |-> function_response] >>

\* The two messages process_function_call appends for one tool call.
BufferedCallMessages(role, tool_call, function_response) ==
    << [role |-> role,
        function_call |-> [name |-> tool_call.name, arguments |-> tool_call.arguments],
        content |-> None],
       [role |-> "function", name |-> tool_call.name, content |-> function_response] >>

\* process_function_call from tool call number i on, when the endpoint fails
\* at call number failAt (0: never). acc: the calls made, the messages built,
\* whether an invocation raised.
RECURSIVE ProcessCallsFrom(_, _, _, _)
ProcessCallsFrom(message, i, failAt, acc) ==
    IF i > Len(message.tool_calls) THEN acc
    ELSE LET tool_call == message.tool_calls[i]
         IN  IF \A j \in 1..Len(azure_openai_available_tools) :
                    azure_openai_available_tools[j] # tool_call.name
             THEN ProcessCallsFrom(message, i + 1, failAt, acc)
             ELSE LET call == openai_remote_azure_function_call(
                                  tool_call.name, tool_call.arguments, i # failAt)
                      logged == Append(acc.log,
                                       LogEntry(tool_call.name, tool_call.arguments, call))
                  IN  IF ~Returned(call)
                      THEN [acc EXCEPT !.log = logged, !.raised = TRUE]
                      ELSE ProcessCallsFrom(message, i + 1, failAt,
                               [acc EXCEPT !.log = logged,
                                           !.messages = @ \o BufferedCallMessages(
                                               message.role, tool_call, call.text)])

process_function_call(message, failAt) ==
    ProcessCallsFrom(message, 1, failAt, [log |-> <<>>, messages |-> <<>>, raised |-> FALSE])

\* complete_chat_request: the first request, and its formatting.
BufferedSend(catalog_ok, provider) ==
    /\ pc = "buffered_send"
    /\ send_chat_request(request_messages, catalog_ok)
    /\ IF provider = Returns
       THEN /\ \E r \in FirstResponses : responses' = Append(responses, r)
            /\ result' = 1
            /\ pc' = IF fc_enabled THEN "buffered_process" ELSE "buffered_done"
            /\ http_status' = IF fc_enabled THEN http_status ELSE 200
       ELSE /\ pc' = "failed"
            /\ http_status' = ErrorStatus(provider)
            /\ UNCHANGED <<responses, result>>
    /\ UNCHANGED <<fc_enabled, datasource, client_messages, tool_log, streamVars, storeVars,
                   redactVars, serveVars, stepVars>>

BufferedSendFirst ==
    \E catalog_ok \in BOOLEAN, provider \in ProviderOutcomes : BufferedSend(catalog_ok, provider)

\* complete_chat_request: process_function_call on the first response, and
\* the extension of request_body["messages"].
BufferedProcess ==
    /\ pc = "buffered_process"
    /\ \E failAt \in 0..Len(responses[Len(responses)].tool_calls) :
        LET run == process_function_call(responses[Len(responses)], failAt)
        IN  /\ tool_log' = tool_log \o run.log
            /\ IF run.raised
               THEN /\ pc' = "failed"
                    /\ http_status' = 500
                    /\ UNCHANGED request_messages
               ELSE IF run.messages # <<>>
               THEN /\ request_messages' = request_messages \o run.messages
                    /\ pc' = "buffered_resend"
                    /\ UNCHANGED http_status
               ELSE /\ pc' = "buffered_done"
                    /\ http_status' = 200
                    /\ UNCHANGED request_messages
    /\ UNCHANGED <<fc_enabled, datasource, azure_openai_tools, azure_openai_available_tools,
                   client_messages, requests, streamVars, bufferedVars, storeVars,
                   redactVars, serveVars, stepVars>>

\* A complete_chat_request that would look for tool calls in the second
\* response too.
SecondResponseProcessed == "buffered_process"
\* complete_chat_request: the second response is formatted and returned.
SecondResponseReturned == "buffered_done"

\* complete_chat_request: the request after tool execution; its formatting
\* replaces the first one.
BufferedResend(catalog_ok, provider) ==
    /\ pc = "buffered_resend"
    /\ send_chat_request(request_messages, catalog_ok)
    /\ IF provider = Returns
       THEN /\ \E r \in SecondResponses : responses' = Append(responses, r)
            /\ result' = Len(responses) + 1
            /\ pc' = SecondResponseReturned
            /\ http_status' = 200
       ELSE /\ pc' = "failed"
            /\ http_status' = ErrorStatus(provider)
            /\ UNCHANGED <<responses, result>>
    /\ UNCHANGED <<fc_enabled, datasource, client_messages, tool_log, streamVars, storeVars,
                   redactVars, serveVars, stepVars>>

BufferedSendSecond ==
    \E catalog_ok \in BOOLEAN, provider \in ProviderOutcomes :
       BufferedResend(catalog_ok, provider)

InitBuffered ==
    /\ InitChat /\ InitStreamFields /\ InitBufferedFields /\ InitStoreFields /\ InitRedactFields
    /\ ServeStarted
    /\ enable_message_feedback = FALSE
    /\ pc = "buffered_send"

NextBuffered ==
    \/ BufferedSendFirst
    \/ BufferedProcess
    \/ BufferedSendSecond

SpecBuffered == InitBuffered /\ [][NextBuffered]_vars

\* ================================================================== claims
FirstEmitted(n) == \E i \in 1..Len(emitted) : emitted[i].src = "first" /\ emitted[i].idx = n
LogOf(name) == SelectSeq(tool_log, LAMBDA e : e.name = name)

\* C1: with function calling enabled and the provider streaming ScenarioChunks,
\* chunk 1 is yielded before chunk 2 is taken from the provider, chunks 2 and 3
\* are never yielded, and once chunk 4 has been processed tool f has been
\* invoked exactly once, with the concatenation of the text of both fragments.
C1_StreamingScenario ==
    (fc_enabled /\ scenario >= 1) =>
        /\ scenario >= 2 => FirstEmitted(1)
        /\ ~FirstEmitted(2) /\ ~FirstEmitted(3)
        /\ (scenario = 4 /\ pc # "process") =>
              /\ Len(LogOf("f")) = 1
              /\ LogOf("f")[1].arguments = TextA \o TextB

\* The completion branch has flushed the in-progress call: tool_calls is final.
Flushed == current_tool_call # <<>> /\ "tool_arguments" \in DOMAIN current_tool_call[1]

\* C2: however the provider splits the argument text of its calls into
\* fragments and chunks, the final tool_calls list holds the streamed calls in
\* order, each with its id, its name and its whole argument text.
C2_ChunkingInvariance ==
    (fc_enabled /\ intended.wellformed /\ Flushed) => tool_calls = intended.calls

\* C3: one streamed request sends at most one follow-up request to the provider
\* and extends its message list with function_messages at most once.
C3_OneContinuation ==
    /\ Len(requests) <= 2
    /\ Len(FilterToolMessages(request_messages))
         <= Len(FilterToolMessages(client_messages)) + Len(function_messages)

RECURSIVE ExpectedPairs(_)
ExpectedPairs(calls) ==
    IF calls = <<>> THEN <<>>
    ELSE << [role |-> "assistant",
             function_call |-> [name |-> Head(calls).name,
                                arguments |-> Head(calls).arguments],
             content |-> None],
            [role |-> "function", name |-> Head(calls).name,
             content |-> ToolReply(Head(calls).name)] >>
         \o ExpectedPairs(Tail(calls))

Registered(name) ==
    \E j \in 1..Len(azure_openai_available_tools) : azure_openai_available_tools[j] = name

FirstCalls == responses[1].tool_calls
AllRegistered == \A i \in 1..Len(FirstCalls) : Registered(FirstCalls[i].name)

\* C4: when complete_chat_request returns with function calling enabled and the
\* first response carried k >= 1 tool calls, all registered, then each tool was
\* invoked once in call order, the 2k messages (call descriptor, then result,
\* per call) were appended in call order, exactly one further request was sent,
\* carrying them, and the result returned is that of the second response.
C4_BufferedToolRoundTrip ==
    (pc = "buffered_done" /\ fc_enabled /\ FirstCalls # <<>> /\ AllRegistered) =>
        /\ tool_log = [i \in 1..Len(FirstCalls) |->
                          [name |-> FirstCalls[i].name,
                           arguments |-> FirstCalls[i].arguments, outcome |-> "ok"]]
        /\ request_messages
             = FilterToolMessages(client_messages) \o ExpectedPairs(FirstCalls)
        /\ Len(requests) = 2
        /\ requests[2].messages = requests[1].messages \o ExpectedPairs(FirstCalls)
        /\ Len(responses) = 2
        /\ result = 2

C4_Witness ==
    /\ pc = "buffered_done" /\ fc_enabled
    /\ Len(FirstCalls) = 2 /\ AllRegistered
    /\ FirstCalls[1].name # FirstCalls[2].name
    /\ Len(tool_log) = 2
    /\ result = 2

\* =============================================== conversation history store
\* ------------------------------------------------- container_client calls
Exists(its, id) == its[id].type # "none"
\* An insert that leaves an item already stored under the id as it is.
insert_item(its, item) == IF Exists(its, item.id) THEN its ELSE [its EXCEPT ![item.id] = item]
upsert_item(its, item) == [its EXCEPT ![item.id] = item]
delete_item(its, id) == [its EXCEPT ![id] = NoItem]

IsConversation(item) == item.type = "conversation"
IsMessage(item) == item.type = "message"

\* The items of S as a sequence ordered by key (ascending), ties by id.
RECURSIVE OrderBy(_, _, _)
OrderBy(its, S, key) ==
    IF S = {} THEN <<>>
    ELSE LET first == CHOOSE x \in S : \A y \in S :
                          \/ its[x][key] < its[y][key]
                          \/ its[x][key] = its[y][key] /\ x <= y
         IN  <<its[first]>> \o OrderBy(its, S \ {first}, key)

Reverse(seq) == [i \in 1..Len(seq) |-> seq[Len(seq) + 1 - i]]

\* ------------------------------------------- CosmosConversationClient
create_conversation(id, user_id, title, now) ==
    [id |-> id, type |-> "conversation", createdAt |-> now, updatedAt |-> now,
     userId |-> user_id, title |-> title]

\* None is the empty sequence.
get_conversation(its, user_id, conversation_id) ==
    IF /\ conversation_id \in Ids
       /\ IsConversation(its[conversation_id])
       /\ its[conversation_id].userId = user_id
    THEN <<its[conversation_id]>> ELSE <<>>

\* A listing that leaves out the filter on userId.
get_conversations_of_all(its, user_id) ==
    Reverse(OrderBy(its, {id \in Ids : IsConversation(its[id])}, "updatedAt"))

get_conversations(its, user_id) ==
    Reverse(OrderBy(its, {id \in Ids : IsConversation(its[id]) /\ its[id].userId = user_id},
                    "updatedAt"))

get_messages_unscoped(its, user_id, conversation_id) ==
    OrderBy(its, {id \in Ids : /\ IsMessage(its[id])
                               /\ its[id].conversationId = conversation_id},
            "createdAt")

get_messages(its, user_id, conversation_id) ==
    OrderBy(its, {id \in Ids : /\ IsMessage(its[id])
                               /\ its[id].conversationId = conversation_id
                               /\ its[id].userId = user_id},
            "createdAt")

NewMessage(uuid, conversation_id, user_id, role, now) ==
    LET message == [id |-> uuid, type |-> "message", userId |-> user_id, createdAt |-> now,
                    updatedAt |-> now, conversationId |-> conversation_id, role |-> role,
                    content |-> "content"]
    IN  IF enable_message_feedback
        THEN [k \in DOMAIN message \cup {"feedback"} |->
                 IF k = "feedback" THEN "" ELSE message[k]]
        ELSE message

\* A create_message that looks for the conversation before it writes the
\* message, and writes nothing when there is none.
create_message_checked(its, uuid, conversation_id, user_id, role, now) ==
    LET message == NewMessage(uuid, conversation_id, user_id, role, now)
        conversation == get_conversation(its, user_id, conversation_id)
    IN  IF conversation = <<>>
        THEN [items |-> its, resp |-> "Conversation not found", createdAt |-> now]
        ELSE [items |-> upsert_item(upsert_item(its, message),
                            [conversation[1] EXCEPT !.updatedAt = message.createdAt]),
              resp |-> "ok", createdAt |-> now]

\* create_message: the container afterwards and what the call returns.
create_message(its, uuid, conversation_id, user_id, role, now) ==
    LET message == NewMessage(uuid, conversation_id, user_id, role, now)
        written == upsert_item(its, message)
        conversation == get_conversation(written, user_id, conversation_id)
    IN  IF conversation = <<>>
        THEN [items |-> written, resp |-> "Conversation not found", createdAt |-> now]
        ELSE [items |-> upsert_item(written,
                            [conversation[1] EXCEPT !.updatedAt = message.createdAt]),
              resp |-> "ok", createdAt |-> now]

WithFeedback(message, feedback, now) ==
    [k \in DOMAIN message \cup {"feedback"} |->
        IF k = "feedback" THEN feedback ELSE IF k = "updatedAt" THEN now ELSE message[k]]

\* update_message_feedback: read_item by id alone, then upsert. resp FALSE
\* is the CosmosResourceNotFoundError branch.
update_message_feedback(its, user_id, message_id, feedback, now) ==
    IF message_id \in Ids /\ Exists(its, message_id)
    THEN [items |-> upsert_item(its, WithFeedback(its[message_id], feedback, now)),
          resp |-> TRUE]
    ELSE [items |-> its, resp |-> FALSE]

delete_messages_of_user(its, conversation_id, user_id) ==
    [id \in Ids |-> IF IsMessage(its[id]) /\ its[id].userId = user_id THEN NoItem ELSE its[id]]

\* delete_messages: every message get_messages returns is deleted by id.
delete_messages(its, conversation_id, user_id) ==
    LET messages == get_messages(its, user_id, conversation_id)
    IN  [id \in Ids |->
            IF \E i \in 1..Len(messages) : messages[i].id = id THEN NoItem ELSE its[id]]

\* delete_conversation: read_item by id alone; an absent item is success.
delete_conversation(its, user_id, conversation_id) ==
    IF conversation_id \in Ids /\ Exists(its, conversation_id)
    THEN delete_item(its, conversation_id)
    ELSE its

\* ------------------------------------------------------- history requests
\* A request runs to its answer before the next one starts, and the clock
\* does not advance while it is served. An id of 0 is a request without
\* that field.
\* What is kept of the latest request: the endpoint, the status answered,
\* whether the id it named had an item in the store when it arrived, and
\* whether it changed the store.
Answer(op, id, status, after) ==
    [op |-> op, status |-> status, found |-> id \in Ids /\ Exists(items, id),
     changed |-> after # items]

\* uuid.uuid4(): an id that no item has and no caller has named. Unused ids
\* are interchangeable, so the generator and a caller inventing an id take
\* the least one.
uuid4(taken) == CHOOSE id \in Ids \ taken : \A other \in Ids \ taken : id <= other

Named(ids) == ids \ {0}

IdArgs == {0} \cup used \cup (IF Ids \ used = {} THEN {} ELSE {uuid4(used)})

Book == [items |-> items, used |-> used, last_append |-> last_append,
         n_appends |-> n_appends, all_fresh |-> all_fresh, resp |-> "ok"]

\* One create_message call and what it adds to the record of appends.
Append1(b, uuid, conversation_id, user_id, role, now) ==
    LET r == create_message(b.items, uuid, conversation_id, user_id, role, now)
        ok == r.resp = "ok"
    IN  [items |-> r.items,
         used |-> b.used \cup {uuid, conversation_id},
         last_append |-> IF ok THEN [b.last_append EXCEPT ![conversation_id] = r.createdAt]
                         ELSE b.last_append,
         n_appends |-> IF ok THEN [b.n_appends EXCEPT ![conversation_id] = @ + 1]
                       ELSE b.n_appends,
         all_fresh |-> b.all_fresh /\ uuid \notin b.used /\ uuid # conversation_id,
         resp |-> r.resp]

Commit(b) ==
    /\ items' = b.items
    /\ used' = b.used
    /\ last_append' = b.last_append
    /\ n_appends' = b.n_appends
    /\ all_fresh' = b.all_fresh

Serve ==
    /\ n_requests < MaxRequests
    /\ n_requests' = n_requests + 1
    /\ UNCHANGED <<chatVars, streamVars, bufferedVars, redactVars, serveVars, stepVars,
                   enable_message_feedback>>

\* Time between two requests; the clock starts with the first request.
Tick ==
    /\ n_requests > 0
    /\ clock < MaxTime
    /\ clock' = clock + 1
    /\ UNCHANGED <<chatVars, streamVars, bufferedVars, redactVars, serveVars, stepVars, items,
                   enable_message_feedback, used, last, last_append, n_appends, n_requests,
                   any_delete, all_fresh>>

\* /history/generate (add_conversation). completion: the status that
\* conversation_internal answers with.
HistoryGenerate(user, conversation_id, last_is_user, completion) ==
    /\ Serve
    /\ conversation_id = 0 => Ids \ used # {}
    /\ LET new_id == IF conversation_id = 0 THEN uuid4(used) ELSE conversation_id
           taken == used \cup {new_id}
           created == IF conversation_id = 0
                      THEN [Book EXCEPT
                              !.items = upsert_item(items,
                                  create_conversation(new_id, user, "generated", clock)),
                              !.used = taken]
                      ELSE Book
       IN  IF last_is_user
           THEN /\ Ids \ taken # {}
                /\ LET b == Append1(created, uuid4(taken), new_id, user, "user", clock)
                   IN  /\ Commit(b)
                       /\ last' = Answer("generate", conversation_id,
                                         IF b.resp = "ok" THEN completion ELSE 500, items')
           ELSE /\ Commit(created)
                /\ last' = Answer("generate", conversation_id, 500, items')
    /\ UNCHANGED <<clock, any_delete>>

\* The tool message that precedes the assistant message is stored first,
\* under a generated id.
ToolSkipped(b, tool_id, conversation_id, user, now) == b

ToolFirst(b, tool_id, conversation_id, user, now) ==
    Append1(b, tool_id, conversation_id, user, "tool", now)

\* /history/update (update_conversation). supplied: messages[-1]["id"]. The
\* second message is stamped when it is written: later, or at the same time.
update_conversation(b, user, conversation_id, last_is_assistant, has_tool, supplied, now, later) ==
    IF conversation_id = 0 \/ ~last_is_assistant
    THEN [book |-> b, status |-> 500]
    ELSE LET tool == IF has_tool
                     THEN ToolFirst(b, uuid4(b.used \cup Named({conversation_id, supplied})),
                                    conversation_id, user, now)
                     ELSE b
         IN  IF supplied = 0
             THEN [book |-> tool, status |-> 500]
             ELSE [book |-> Append1(tool, supplied, conversation_id, user, "assistant",
                                    later),
                   status |-> 200]

\* The generated id of the tool message is one nobody has named.
CanUpdate(conversation_id, last_is_assistant, has_tool, supplied) ==
    (conversation_id # 0 /\ last_is_assistant /\ has_tool)
       => Ids \ (used \cup Named({conversation_id, supplied})) # {}

Laters(conversation_id, last_is_assistant, has_tool) ==
    IF conversation_id # 0 /\ last_is_assistant /\ has_tool THEN clock..MaxTime ELSE {clock}

HistoryUpdate(user, conversation_id, last_is_assistant, has_tool, supplied) ==
    /\ Serve
    /\ CanUpdate(conversation_id, last_is_assistant, has_tool, supplied)
    /\ \E later \in Laters(conversation_id, last_is_assistant, has_tool) :
         LET r == update_conversation(Book, user, conversation_id, last_is_assistant,
                                      has_tool, supplied, clock, later)
         IN  /\ Commit(r.book)
             /\ last' = Answer("update", conversation_id, r.status, items')
             /\ clock' = later
    /\ UNCHANGED any_delete

\* /history/message_feedback (update_message).
HistoryFeedback(user, message_id, message_feedback) ==
    /\ Serve
    /\ IF message_id = 0 \/ message_feedback = ""
       THEN /\ UNCHANGED items
            /\ last' = Answer("feedback", message_id, 400, items')
       ELSE LET r == update_message_feedback(items, user, message_id, message_feedback, clock)
            IN  /\ items' = r.items
                /\ last' = Answer("feedback", message_id, IF r.resp THEN 200 ELSE 404, items')
    /\ UNCHANGED <<clock, used, last_append, n_appends, any_delete, all_fresh>>

\* /history/delete (delete_conversation): the messages, then the record.
delete_conversation_handler(its, user, conversation_id) ==
    delete_conversation(delete_messages(its, conversation_id, user), user, conversation_id)

HistoryDelete(user, conversation_id) ==
    /\ Serve
    /\ IF conversation_id = 0
       THEN /\ UNCHANGED <<items, any_delete>>
            /\ last' = Answer("delete", conversation_id, 400, items')
       ELSE /\ items' = delete_conversation_handler(items, user, conversation_id)
            /\ any_delete' = (any_delete \/ items' # items)
            /\ last' = Answer("delete", conversation_id, 200, items')
    /\ UNCHANGED <<clock, used, last_append, n_appends, all_fresh>>

\* /history/list (list_conversations): the records it answers with.
list_conversations(its, user) == get_conversations(its, user)

HistoryList(user) ==
    /\ Serve
    /\ last' = Answer("list", 0, 200, items)
    /\ UNCHANGED <<items, clock, used, last_append, n_appends, any_delete, all_fresh>>

\* /history/read (get_conversation): status and the messages it answers with.
read_conversation(its, user, conversation_id) ==
    IF conversation_id = 0 THEN [status |-> 400, messages |-> <<>>]
    ELSE IF get_conversation(its, user, conversation_id) = <<>>
    THEN [status |-> 404, messages |-> <<>>]
    ELSE [status |-> 200, messages |-> get_messages(its, user, conversation_id)]

HistoryRead(user, conversation_id) ==
    /\ Serve
    /\ last' = Answer("read", conversation_id,
                      read_conversation(items, user, conversation_id).status, items)
    /\ UNCHANGED <<items, clock, used, last_append, n_appends, any_delete, all_fresh>>

\* /history/rename (rename_conversation).
\* A rename that also stamps the record.
RenamedAndStamped(conversation, title) ==
    [conversation EXCEPT !.title = title, !.updatedAt = @ + 1]
\* rename_conversation: conversation["title"] = title.
Renamed(conversation, title) == [conversation EXCEPT !.title = title]

HistoryRename(user, conversation_id, title) ==
    /\ Serve
    /\ LET conversation == get_conversation(items, user, conversation_id)
       IN  IF conversation_id = 0
           THEN /\ UNCHANGED items
                /\ last' = Answer("rename", conversation_id, 400, items')
           ELSE IF conversation = <<>>
           THEN /\ UNCHANGED items
                /\ last' = Answer("rename", conversation_id, 404, items')
           ELSE IF title = ""
           THEN /\ UNCHANGED items
                /\ last' = Answer("rename", conversation_id, 400, items')
           ELSE /\ items' = upsert_item(items, Renamed(conversation[1], title))
                /\ last' = Answer("rename", conversation_id, 200, items')
    /\ UNCHANGED <<clock, used, last_append, n_appends, any_delete, all_fresh>>

\* /history/delete_all: for each conversation of the caller, the messages,
\* then the record.
RECURSIVE DeleteEach(_, _, _)
DeleteEach(its, user, conversations) ==
    IF conversations = <<>> THEN its
    ELSE DeleteEach(delete_conversation_handler(its, user, Head(conversations).id),
                    user, Tail(conversations))

HistoryDeleteAll(user) ==
    /\ Serve
    /\ LET conversations == get_conversations(items, user)
       IN  IF conversations = <<>>
           THEN /\ UNCHANGED <<items, any_delete>>
                /\ last' = Answer("delete_all", 0, 404, items')
           ELSE /\ items' = DeleteEach(items, user, conversations)
                /\ any_delete' = TRUE
                /\ last' = Answer("delete_all", 0, 200, items')
    /\ UNCHANGED <<clock, used, last_append, n_appends, all_fresh>>

\* /history/clear (clear_messages).
HistoryClear(user, conversation_id) ==
    /\ Serve
    /\ IF conversation_id = 0
       THEN /\ UNCHANGED <<items, any_delete>>
            /\ last' = Answer("clear", conversation_id, 400, items')
       ELSE /\ items' = delete_messages(items, conversation_id, user)
            /\ any_delete' = (any_delete \/ items' # items)
            /\ last' = Answer("clear", conversation_id, 200, items')
    /\ UNCHANGED <<clock, used, last_append, n_appends, all_fresh>>

InitStore ==
    /\ InitStoreFields /\ InitRedactFields /\ ServeStarted
    /\ enable_message_feedback \in BOOLEAN
    /\ fc_enabled = FALSE /\ datasource = FALSE
    /\ azure_openai_tools = <<>> /\ azure_openai_available_tools = <<>>
    /\ client_messages = <<>> /\ request_messages = <<>>
    /\ requests = <<>> /\ tool_log = <<>> /\ http_status = 0
    /\ InitStreamFields /\ InitBufferedFields
    /\ pc = "history"

Feedbacks == {"", "positive"}
Titles == {"", "renamed"}

NextStore ==
    \/ Tick
    \/ \E user \in Users, conversation_id \in IdArgs, last_is_user \in BOOLEAN,
          completion \in {200, 500} :
         HistoryGenerate(user, conversation_id, last_is_user, completion)
    \/ \E user \in Users, conversation_id \in IdArgs, last_is_assistant \in BOOLEAN,
          has_tool \in BOOLEAN, supplied \in IdArgs :
         HistoryUpdate(user, conversation_id, last_is_assistant, has_tool, supplied)
    \/ \E user \in Users, message_id \in IdArgs, message_feedback \in Feedbacks :
         HistoryFeedback(user, message_id, message_feedback)
    \/ \E user \in Users, conversation_id \in IdArgs : HistoryDelete(user, conversation_id)
    \/ \E user \in Users : HistoryList(user)
    \/ \E user \in Users, conversation_id \in IdArgs : HistoryRead(user, conversation_id)
    \/ \E user \in Users, conversation_id \in IdArgs, title \in Titles :
         HistoryRename(user, conversation_id, title)
    \/ \E user \in Users : HistoryDeleteAll(user)
    \/ \E user \in Users, conversation_id \in IdArgs : HistoryClear(user, conversation_id)

SpecStore == InitStore /\ [][NextStore]_vars

\* ------------------------------------- redaction in prepare_model_args
\* A dict is a function on its keys. The parameters of the data source hold
\* strings under the secret names and dicts under authentication and
\* embedding_dependency.
secret_params == <<"key", "connection_string", "embedding_key", "encoded_api_key", "api_key">>

SecretNames == {secret_params[i] : i \in 1..Len(secret_params)}

Mask == "*****"

Dicts(keys, values) == UNION {[present -> values] : present \in SUBSET keys}

With(dict, key, value) ==
    [k \in DOMAIN dict \cup {key} |-> IF k = key THEN value ELSE dict[k]]

\* dict.get(key) is truthy
Truthy(dict, key) == key \in DOMAIN dict /\ dict[key] # ""

Values == {"", "s3cret"}

TopLevel == {With(d, "endpoint", "https://search") : d \in Dicts(SecretNames, Values)}

Authentications == Dicts({"key", "type"}, Values)

EmbeddingDependencies ==
    {[type |-> "deployment_name"]}
    \cup {With([type |-> "endpoint"], "authentication", a) :
            a \in Dicts({"api_key", "type"}, {"s3cret"})}

Parameters ==
    LET auth == TopLevel \cup {With(d, "authentication", a) :
                                  d \in TopLevel, a \in Authentications}
    IN  auth \cup {With(d, "embedding_dependency", e) :
                      d \in auth, e \in EmbeddingDependencies}

MaskFieldsNot(authentication) == authentication

\* lines 631-635 and 640-644: every field whose name is a secret name
MaskFields(authentication) ==
    [field \in DOMAIN authentication |->
        IF field \in SecretNames THEN Mask ELSE authentication[field]]

\* lines 621-627: the secret names whose value is truthy
MaskTopLevel(params) ==
    [k \in DOMAIN params |->
        IF k \in SecretNames /\ Truthy(params, k) THEN Mask ELSE params[k]]

Redact(params) ==
    LET top == MaskTopLevel(params)
        auth == IF "authentication" \in DOMAIN top
                THEN [top EXCEPT !["authentication"] = MaskFields(@)]
                ELSE top
    IN  IF /\ "embedding_dependency" \in DOMAIN auth
           /\ "authentication" \in DOMAIN auth["embedding_dependency"]
        THEN [auth EXCEPT !["embedding_dependency"]["authentication"] = MaskFields(@)]
        ELSE auth

RedactMessages == InitialMessages \cup {<<UserMessage("q1"), AssistantMessage("a1")>>}

InitRedact ==
    /\ fc_enabled = FALSE
    /\ datasource \in BOOLEAN
    /\ azure_openai_tools = <<>> /\ azure_openai_available_tools = <<>>
    /\ client_messages \in RedactMessages
    /\ request_messages = client_messages
    /\ requests = <<>> /\ tool_log = <<>> /\ http_status = 0
    /\ InitStreamFields /\ InitBufferedFields /\ InitStoreFields /\ ServeStarted
    /\ enable_message_feedback = FALSE
    /\ parameters \in Parameters
    /\ model_args_clean = <<>>
    /\ pc = "prepare"

\* prepare_model_args up to its logging.debug: parameters is what
\* construct_payload_configuration answers, attached when extra_body is.
PrepareAndLog ==
    /\ pc = "prepare"
    /\ LET model_args == prepare_model_args(request_messages)
       IN  /\ model_args_clean' = IF model_args.has_extra_body THEN Redact(parameters)
                                  ELSE <<>>
           /\ pc' = IF model_args.has_extra_body THEN "logged_extra_body" ELSE "logged"
    /\ UNCHANGED <<fc_enabled, datasource, azure_openai_tools, azure_openai_available_tools,
                   client_messages, request_messages, requests, tool_log, http_status,
                   streamVars, bufferedVars, storeVars, serveVars, stepVars, parameters>>

NextRedact == PrepareAndLog

SpecRedact == InitRedact /\ [][NextRedact]_vars

\* ------------------------------------------------ claims on redaction
Redacted == pc = "logged_extra_body"

\* C10 (as stated): in the redacted copy every field with a secret name that
\* is present in the parameters, in authentication or in
\* embedding_dependency.authentication holds the mask.
C10_EverySecretMasked ==
    Redacted =>
        /\ \A f \in SecretNames \cap DOMAIN parameters : model_args_clean[f] = Mask
        /\ "authentication" \in DOMAIN parameters =>
              \A f \in SecretNames \cap DOMAIN parameters["authentication"] :
                  model_args_clean["authentication"][f] = Mask
        /\ ( /\ "embedding_dependency" \in DOMAIN parameters
             /\ "authentication" \in DOMAIN parameters["embedding_dependency"] ) =>
              \A f \in SecretNames
                          \cap DOMAIN parameters["embedding_dependency"]["authentication"] :
                  model_args_clean["embedding_dependency"]["authentication"][f] = Mask

\* C10 (amended): in the redacted copy every field with a secret name holds
\* the mask when it is present in authentication or in
\* embedding_dependency.authentication, and when it is present in the
\* parameters with a non-empty value; a secret name whose value in the
\* parameters is empty keeps that empty value.
C10_NonEmptySecretMasked ==
    Redacted =>
        /\ \A f \in SecretNames \cap DOMAIN parameters :
              model_args_clean[f] = IF parameters[f] # "" THEN Mask ELSE parameters[f]
        /\ "authentication" \in DOMAIN parameters =>
              \A f \in SecretNames \cap DOMAIN parameters["authentication"] :
                  model_args_clean["authentication"][f] = Mask
        /\ ( /\ "embedding_dependency" \in DOMAIN parameters
             /\ "authentication" \in DOMAIN parameters["embedding_dependency"] ) =>
              \A f \in SecretNames
                          \cap DOMAIN parameters["embedding_dependency"]["authentication"] :
                  model_args_clean["embedding_dependency"]["authentication"][f] = Mask

C10_Witness ==
    /\ Redacted
    /\ Truthy(parameters, "api_key") /\ model_args_clean["api_key"] = Mask
    /\ "key" \in DOMAIN parameters /\ parameters["key"] = ""
    /\ "authentication" \in DOMAIN parameters
    /\ "key" \in DOMAIN parameters["authentication"]
    /\ model_args_clean["authentication"]["key"] = Mask
    /\ "embedding_dependency" \in DOMAIN parameters
    /\ "authentication" \in DOMAIN parameters["embedding_dependency"]
    /\ "api_key" \in DOMAIN parameters["embedding_dependency"]["authentication"]

\* ------------------------------------------------ claims on the store
\* A request by user, whatever the endpoint and its arguments.
RequestBy(user) ==
    \/ \E conversation_id \in IdArgs, last_is_user \in BOOLEAN, completion \in {200, 500} :
         HistoryGenerate(user, conversation_id, last_is_user, completion)
    \/ \E conversation_id \in IdArgs, last_is_assistant \in BOOLEAN, has_tool \in BOOLEAN,
          supplied \in IdArgs :
         HistoryUpdate(user, conversation_id, last_is_assistant, has_tool, supplied)
    \/ \E message_id \in IdArgs, message_feedback \in Feedbacks :
         HistoryFeedback(user, message_id, message_feedback)
    \/ \E conversation_id \in IdArgs : HistoryDelete(user, conversation_id)
    \/ HistoryList(user)
    \/ \E conversation_id \in IdArgs : HistoryRead(user, conversation_id)
    \/ \E conversation_id \in IdArgs, title \in Titles :
         HistoryRename(user, conversation_id, title)
    \/ HistoryDeleteAll(user)
    \/ \E conversation_id \in IdArgs : HistoryClear(user, conversation_id)

Owners(seq) == {seq[i].userId : i \in 1..Len(seq)}

Sorted(messages) ==
    \A i \in 1..Len(messages), j \in 1..Len(messages) :
        i < j => messages[i].createdAt <= messages[j].createdAt

\* C5: as long as no request has removed an item, every conversation that
\* has received a successful append has updatedAt equal to the createdAt of
\* the message of its latest successful append.
C5_UpdatedAtIsLatestAppend ==
    ~any_delete =>
        \A id \in Ids :
            (IsConversation(items[id]) /\ last_append[id] # -1)
                => items[id].updatedAt = last_append[id]

\* C6: no request of a user is answered with, changes or removes an item
\* whose userId is another user.
C6_NoCrossUserAccess ==
    /\ [](\A a \in Users :
            /\ Owners(list_conversations(items, a)) \subseteq {a}
            /\ \A c \in Ids : Owners(read_conversation(items, a, c).messages) \subseteq {a})
    /\ [][\A a \in Users :
            RequestBy(a) =>
                \A id \in Ids :
                    (Exists(items, id) /\ items[id].userId # a) => items'[id] = items[id]]_vars

\* C7: a feedback update by one user on a message of another user is
\* answered not-found or forbidden and leaves that message as it was.
C7_ForeignFeedbackRefused ==
    [][\A a \in Users, message_id \in Ids :
          ( /\ HistoryFeedback(a, message_id, "positive")
            /\ IsMessage(items[message_id])
            /\ items[message_id].userId # a )
          => /\ last'.status \in {403, 404}
             /\ items'[message_id] = items[message_id]]_vars

\* C8 (as stated): with no item removed, get_messages of a conversation
\* for its owner returns as many messages as there were successful appends
\* to it, sorted by non-decreasing createdAt.
C8_EveryAppendReturned ==
    \A c \in Ids :
        (IsConversation(items[c]) /\ ~any_delete)
            => LET messages == get_messages(items, items[c].userId, c)
               IN  Len(messages) = n_appends[c] /\ Sorted(messages)

\* C8 (amended): the same, provided that every create_message call so far
\* was given an id that no item had and no earlier call had named.
C8_EveryFreshAppendReturned ==
    \A c \in Ids :
        (IsConversation(items[c]) /\ ~any_delete /\ all_fresh)
            => LET messages == get_messages(items, items[c].userId, c)
               IN  Len(messages) = n_appends[c] /\ Sorted(messages)

C8_Witness ==
    \E c \in Ids :
        /\ IsConversation(items[c]) /\ ~any_delete /\ all_fresh
        /\ n_appends[c] = 2
        /\ LET messages == get_messages(items, items[c].userId, c)
           IN  Len(messages) = 2 /\ messages[1].createdAt < messages[2].createdAt

\* C9 (as stated): /history/delete of an id that has no item is answered
\* 200 and leaves the store as it was; a second delete changes nothing more.
C9_DeleteAbsentLeavesStore ==
    [][last'.op = "delete" => \A u \in Users, c \in Ids :
          (HistoryDelete(u, c) /\ ~Exists(items, c))
          => /\ last'.status = 200
             /\ items' = items
             /\ delete_conversation_handler(items', u, c) = items']_vars

\* C9 (amended): /history/delete of an id that has no item is answered 200
\* and removes exactly the caller's messages that name the id as their
\* conversation: every other item is left as it was; after any
\* /history/delete a second delete of the same id changes nothing more.
C9_DeleteAbsentRemovesOrphans ==
    [][last'.op = "delete" => \A u \in Users, c \in Ids :
          /\ (HistoryDelete(u, c) /\ ~Exists(items, c))
             => /\ last'.status = 200
                /\ \A id \in Ids :
                      items'[id] = IF /\ IsMessage(items[id])
                                      /\ items[id].conversationId = c
                                      /\ items[id].userId = u
                                   THEN NoItem ELSE items[id]
          /\ HistoryDelete(u, c) => delete_conversation_handler(items', u, c) = items']_vars

C9_Witness ==
    /\ last.op = "delete" /\ last.status = 200
    /\ ~last.found /\ last.changed

\* -------------------------------------- claims C11-C16: the two tool paths
\* The chunk being processed carries no tool-call fragments.
NoFragments == completionChunk.tool_calls = <<>>

\* C11: with function calling enabled, a chunk of the first provider stream
\* is forwarded to the client if and only if it carries no tool-call
\* fragments and the accumulator is INITIAL when it is processed; a chunk
\* processed while the state is STREAMING, and the chunk that moves the
\* accumulator to COMPLETED, are never forwarded. generate() forwards the
\* chunk exactly when process_function_call_stream answered "INITIAL".
C11_ForwardedIffInitial ==
    [][fc_enabled =>
         /\ pc = "process" =>
              /\ (pc' = "dispatch" /\ stream_state' = "INITIAL")
                   <=> (NoFragments /\ streaming_state = "INITIAL")
              /\ streaming_state = "STREAMING" => stream_state' # "INITIAL"
              /\ (streaming_state # "COMPLETED" /\ streaming_state' = "COMPLETED")
                   => stream_state' # "INITIAL"
         /\ pc = "dispatch" =>
              (emitted' = Append(emitted, [src |-> "first", idx |-> n_consumed])
                 <=> stream_state = "INITIAL")
         /\ pc \notin {"dispatch", "forward"} =>
              \A i \in 1..Len(emitted') :
                  emitted'[i].src = "first" => (i <= Len(emitted) /\ emitted[i] = emitted'[i])]_vars

\* C12: the client-visible stream preserves order. The forwarded chunks of
\* the first provider stream appear in their arrival order; the chunks of a
\* continuation stream appear in their arrival order and after every
\* forwarded chunk of the first stream that arrived before the completing
\* chunk; no chunk is emitted more than once. An entry of emitted names its
\* stream (src, and for a continuation the completing chunk: after) and its
\* position in that stream (idx).
C12_OrderPreserved ==
    \A i, j \in 1..Len(emitted) : i < j =>
        LET a == emitted[i]
            b == emitted[j]
        IN  /\ (a.src = "first" /\ b.src = "first") => a.idx < b.idx
            /\ (a.src = "continuation" /\ b.src = "continuation") =>
                   \/ a.after = b.after /\ a.idx < b.idx
                   \/ a.after < b.after
            /\ (a.src = "continuation" /\ b.src = "first") => b.idx > a.after
            /\ (a.src = "first" /\ b.src = "continuation") => a.idx < b.after

\* The first stream forwarded two chunks, then a completing chunk started a
\* continuation whose two chunks were both emitted.
C12_Witness ==
    /\ fc_enabled
    /\ \E i, j, k, l \in 1..Len(emitted) :
         /\ i < j /\ j < k /\ k < l
         /\ emitted[i].src = "first" /\ emitted[j].src = "first"
         /\ emitted[k].src = "continuation" /\ emitted[l].src = "continuation"
         /\ emitted[k].after = emitted[l].after

\* C13: one complete_chat_request calls the provider at most twice, and the
\* tool calls of the second response cause no tool invocation and no third
\* provider call: the step that receives the second response invokes nothing
\* and ends the request, and nothing follows it.
C13_AtMostTwoProviderCalls ==
    [][/\ Len(requests') <= 2
       /\ Len(responses') = 2 => (tool_log' = tool_log /\ pc' = "buffered_done")
       /\ Len(responses) < 2]_vars

\* The request has returned the second response, which carried a tool call.
C13_Witness ==
    /\ pc = "buffered_done" /\ fc_enabled
    /\ Len(requests) = 2 /\ Len(responses) = 2
    /\ responses[2].tool_calls # <<>>
    /\ Len(tool_log) = Len(FirstCalls)

\* C14: in the buffered and in the streaming path, a tool call whose name is
\* not in the registered catalog causes no call of the function-execution
\* endpoint, contributes no assistant/function message pair and raises no
\* error: no step hands such a name to the tool invoker (which is where the
\* endpoint is called and where an error can come from), and no step appends
\* a function message for it.
C14_UnknownToolSkipped ==
    [][/\ \A k \in (Len(tool_log) + 1)..Len(tool_log') : Registered(tool_log'[k].name)
       /\ \A k \in (Len(function_messages) + 1)..Len(function_messages') :
             function_messages'[k].role = "function"
                => Registered(function_messages'[k].name)
       /\ pc = "buffered_process" =>
             \A k \in (Len(request_messages) + 1)..Len(request_messages') :
                 request_messages'[k].role = "function"
                    => Registered(request_messages'[k].name)]_vars

\* The provider-requested calls of the stream as a buffered response would
\* carry them.
IntendedResponse ==
    Response([i \in 1..Len(intended.calls) |->
                 ToolCall(intended.calls[i].tool_name, intended.calls[i].tool_arguments)])

\* C15: streaming and buffered mode are equivalent on tool handling. When the
\* streaming path has executed the streamed calls (every invocation returned),
\* the buffered path, given the same calls and the same tool results, makes
\* the same invocations in the same order and re-sends the conversation
\* extended by the same assistant-call and function-result messages.
C15_StreamingMatchesBuffered ==
    [][(fc_enabled /\ intended.wellformed /\ pc = "process"
        /\ streaming_state = "STREAMING" /\ streaming_state' = "COMPLETED") =>
          LET buffered == process_function_call(IntendedResponse, 0)
          IN  /\ ~buffered.raised
              /\ tool_log' = tool_log \o buffered.log
              /\ PrepareMessages(function_messages')
                   = PrepareMessages(function_messages \o buffered.messages)]_vars

\* C16: once the tool catalog has been populated, no step of a chat request
\* changes azure_openai_tools or azure_openai_available_tools.
C16_CatalogUnchanged ==
    [][azure_openai_tools # <<>> =>
          /\ azure_openai_tools' = azure_openai_tools
          /\ azure_openai_available_tools' = azure_openai_available_tools]_vars

\* ------------------------------------------ startup and the readiness event
\* init_cosmosdb_client: the client, or None. not_configured: there are no
\* chat_history settings; ensure_failed: ensure() reported a failure or
\* raised; raised: the connectivity test raised, and so does the function.
InitOutcomes == {"not_configured", "ensure_failed", "raised", "ok"}
init_cosmosdb_client(outcome) == IF outcome = "ok" THEN "client" ELSE None

\* create_app.init: cosmos_db_ready.set() is under "if app.cosmos_conversation_client".
ReadyAfterInit(client) == cosmos_db_ready \/ client # None

\* create_app.init, run before serving; when it raises the application does
\* not start serving.
init ==
    /\ pc = "startup"
    /\ \E outcome \in InitOutcomes :
        /\ cosmos_conversation_client' = init_cosmosdb_client(outcome)
        /\ cosmos_db_ready' = ReadyAfterInit(init_cosmosdb_client(outcome))
        /\ pc' = IF outcome = "raised" THEN "startup_failed" ELSE "serving"
    /\ UNCHANGED <<fc_enabled, datasource, azure_openai_tools, azure_openai_available_tools,
                   client_messages, request_messages, requests, tool_log, http_status,
                   streamVars, bufferedVars, storeVars, redactVars, inflight, stepVars>>

\* The statuses a history handler answers with once it is past the wait and
\* the client is there.
HandlerStatuses(route) ==
    CASE route = "generate" -> {200, 500}
      [] route = "update" -> {200, 500}
      [] route = "message_feedback" -> {200, 400, 404, 500}
      [] route = "delete" -> {200, 400, 500}
      [] route = "list" -> {200, 404}
      [] route = "read" -> {200, 400, 404, 500}
      [] route = "rename" -> {200, 400, 404}
      [] route = "delete_all" -> {200, 404, 500}
      [] route = "clear" -> {200, 400, 500}

\* The same when app.cosmos_conversation_client is None: the handlers that
\* validate the request body first can answer 400, every other path raises
\* or answers 500.
UnavailableStatuses(route) ==
    IF route \in {"message_feedback", "delete", "read", "rename", "clear"}
    THEN {400, 500} ELSE {500}

\* A history request arrives: its handler starts and reaches
\* "await cosmos_db_ready.wait()", its first statement. Requests take the
\* slots in order.
Receive(s, route) ==
    /\ pc = "serving"
    /\ inflight[s].at = "idle"
    /\ \A t \in Slots : t < s => inflight[t].at # "idle"
    /\ inflight' = [inflight EXCEPT ![s] = [route |-> route, at |-> "wait", status |-> 0]]
    /\ UNCHANGED <<chatVars, streamVars, bufferedVars, storeVars, redactVars,
                   cosmos_db_ready, cosmos_conversation_client, stepVars>>

\* The wait returns, which it does only when the event is set, and the
\* handler runs to its response.
Proceed(s) ==
    /\ inflight[s].at = "wait"
    /\ cosmos_db_ready
    /\ \E status \in IF cosmos_conversation_client = None
                     THEN UnavailableStatuses(inflight[s].route)
                     ELSE HandlerStatuses(inflight[s].route) :
        inflight' = [inflight EXCEPT ![s].at = "responded", ![s].status = status]
    /\ UNCHANGED <<chatVars, streamVars, bufferedVars, storeVars, redactVars,
                   cosmos_db_ready, cosmos_conversation_client, stepVars>>

InitServe ==
    /\ InitStoreFields /\ InitRedactFields /\ InitStreamFields /\ InitBufferedFields
    /\ enable_message_feedback = FALSE
    /\ fc_enabled = FALSE /\ datasource = FALSE
    /\ azure_openai_tools = <<>> /\ azure_openai_available_tools = <<>>
    /\ client_messages = <<>> /\ request_messages = <<>>
    /\ requests = <<>> /\ tool_log = <<>> /\ http_status = 0
    /\ cosmos_db_ready = FALSE
    /\ cosmos_conversation_client = None
    /\ inflight = [s \in Slots |-> Idle]
    /\ pc = "startup"

NextServe ==
    \/ init
    \/ \E s \in Slots, route \in HistoryRoutes : Receive(s, route)
    \/ \E s \in Slots : Proceed(s)

SpecServe == InitServe /\ [][NextServe]_vars

\* The event loop runs the startup hook, and resumes a handler whose wait
\* can return.
SpecServeLive == SpecServe /\ WF_vars(init) /\ \A s \in Slots : WF_vars(Proceed(s))

\* C17: every history request eventually receives a response, and when the
\* store is not configured or its client could not be initialised at startup
\* (app.cosmos_conversation_client is None) the response has status 500.
C17_EveryRequestAnswered ==
    \A s \in Slots :
        (inflight[s].at = "wait")
            ~> (/\ inflight[s].at = "responded"
                /\ cosmos_conversation_client = None => inflight[s].status = 500)

\* ------------------------------ /history/delete and /history/delete_all,
\* one store call at a time, while other requests are served
IdsOf(seq) == [i \in 1..Len(seq) |-> seq[i].id]

\* The conversation the running request is deleting.
Current == Head(running.conversations)

\* delete_conversation (the handler) up to its first store call.
DeleteBegin(user, conversation_id) ==
    /\ running.at = "idle"
    /\ conversation_id # 0
    /\ running' = [NotRunning EXCEPT !.route = "delete", !.user = user, !.at = "list",
                                     !.conversations = <<conversation_id>>]
    /\ UNCHANGED <<chatVars, streamVars, bufferedVars, storeVars, redactVars, serveVars,
                   appending, renaming>>

\* delete_all_conversations up to its loop: get_conversations, 404 when
\* there is none.
DeleteAllBegin(user) ==
    /\ running.at = "idle"
    /\ LET conversations == IdsOf(get_conversations(items, user))
       IN  running' = IF conversations = <<>>
                      THEN [NotRunning EXCEPT !.route = "delete_all", !.user = user,
                                              !.at = "done", !.status = 404]
                      ELSE [NotRunning EXCEPT !.route = "delete_all", !.user = user,
                                              !.at = "list", !.conversations = conversations]
    /\ UNCHANGED <<chatVars, streamVars, bufferedVars, storeVars, redactVars, serveVars,
                   appending, renaming>>

\* delete_messages: "messages = await self.get_messages(...)".
ListMessages ==
    /\ running.at = "list"
    /\ LET messages == IdsOf(get_messages(items, running.user, Current))
       IN  running' = [running EXCEPT !.messages = messages,
                                      !.at = IF messages = <<>> THEN "record" ELSE "messages"]
    /\ UNCHANGED <<chatVars, streamVars, bufferedVars, storeVars, redactVars, serveVars,
                   appending, renaming>>

\* delete_messages: one iteration of its loop. ok: the store deletes the
\* item; otherwise delete_item raises and the exception is printed.
DeleteMessage(ok) ==
    /\ running.at = "messages"
    /\ items' = IF ok THEN delete_item(items, Head(running.messages)) ELSE items
    /\ running' = [running EXCEPT !.messages = Tail(@),
                                  !.at = IF Tail(running.messages) = <<>> THEN "record"
                                         ELSE "messages"]
    /\ UNCHANGED <<chatVars, streamVars, bufferedVars, redactVars, serveVars, clock,
                   enable_message_feedback, used, last, last_append, n_appends, n_requests,
                   any_delete, all_fresh, appending, renaming>>

\* delete_conversation (the client method), whose answer the handlers drop;
\* then the next conversation, or the 200. ok: the store answers; otherwise
\* the method prints the exception and returns False.
DeleteRecord(ok) ==
    /\ running.at = "record"
    /\ items' = IF ok THEN delete_conversation(items, running.user, Current) ELSE items
    /\ running' = IF Tail(running.conversations) = <<>>
                  THEN [running EXCEPT !.at = "done", !.status = 200]
                  ELSE [running EXCEPT !.conversations = Tail(@), !.at = "list"]
    /\ UNCHANGED <<chatVars, streamVars, bufferedVars, redactVars, serveVars, clock,
                   enable_message_feedback, used, last, last_append, n_appends, n_requests,
                   any_delete, all_fresh, appending, renaming>>

InitDelete == InitStore

\* The other requests are those that create conversations and append
\* messages; each is served between two store calls of the delete.
NextDelete ==
    \/ \E user \in Users, conversation_id \in IdArgs, last_is_user \in BOOLEAN,
          completion \in {200, 500} :
         HistoryGenerate(user, conversation_id, last_is_user, completion)
    \/ \E user \in Users, conversation_id \in IdArgs, last_is_assistant \in BOOLEAN,
          has_tool \in BOOLEAN, supplied \in IdArgs :
         HistoryUpdate(user, conversation_id, last_is_assistant, has_tool, supplied)
    \/ \E user \in Users, conversation_id \in IdArgs : DeleteBegin(user, conversation_id)
    \/ \E user \in Users : DeleteAllBegin(user)
    \/ ListMessages
    \/ \E ok \in BOOLEAN : DeleteMessage(ok)
    \/ \E ok \in BOOLEAN : DeleteRecord(ok)

SpecDelete == InitDelete /\ [][NextDelete]_vars

\* C18: during delete-conversation, and for each conversation handled by
\* delete-all, the conversation record is never removed while a message of
\* that conversation owned by the caller is still in the store, and when the
\* handling of the conversation completes neither the record nor any such
\* message remains. The steps looked at are those of the delete request.
C18_MessagesBeforeRecord ==
    [][(running.at \in {"list", "messages", "record"} /\ running' # running) =>
         /\ (IsConversation(items[Current]) /\ ~IsConversation(items'[Current]))
               => get_messages(items, running.user, Current) = <<>>
         /\ (running.at = "record" /\ running'.at # "record") =>
               /\ ~IsConversation(items'[Current])
               /\ get_messages(items', running.user, Current) = <<>>]_vars

\* ------------------------------------------------ claims C19, C20: feedback
HasFeedback(item) == "feedback" \in DOMAIN item

\* C19: a stored message has a feedback field only if feedback is enabled in
\* the store; the field is the empty string when the message is first
\* written; and only a feedback update adds the field to a stored message or
\* changes or removes its value: appends, re-appends, renames, clears and
\* deletes leave the feedback of every message that stays stored as it was.
C19_FeedbackOnlyByUpdate ==
    [][\A id \in Ids :
         IsMessage(items'[id]) =>
            /\ HasFeedback(items'[id]) => enable_message_feedback
            /\ (~IsMessage(items[id]) /\ HasFeedback(items'[id]))
                  => items'[id].feedback = ""
            /\ (IsMessage(items[id]) /\ last'.op # "feedback") =>
                  /\ HasFeedback(items'[id]) = HasFeedback(items[id])
                  /\ HasFeedback(items[id]) => items'[id].feedback = items[id].feedback]_vars

\* C20: a feedback-update request missing message_id or message_feedback is
\* answered 400, and one naming a message that is not in the store is
\* answered 404, in both cases without a store write; a request for a stored
\* message owned by the caller is answered 200 and changes only that
\* message's feedback and updatedAt.
C20_FeedbackStatuses ==
    [][last'.op = "feedback" =>
         \A user \in Users, message_id \in IdArgs, message_feedback \in Feedbacks :
            HistoryFeedback(user, message_id, message_feedback) =>
               LET missing == message_id = 0 \/ message_feedback = ""
               IN  /\ missing => (last'.status = 400 /\ items' = items)
                   /\ (~missing /\ ~IsMessage(items[message_id]))
                         => (last'.status = 404 /\ items' = items)
                   /\ (~missing /\ IsMessage(items[message_id])
                       /\ items[message_id].userId = user) =>
                         /\ last'.status = 200
                         /\ \A id \in Ids \ {message_id} : items'[id] = items[id]
                         /\ DOMAIN items'[message_id]
                               = DOMAIN items[message_id] \cup {"feedback"}
                         /\ \A k \in DOMAIN items[message_id] \ {"feedback", "updatedAt"} :
                               items'[message_id][k] = items[message_id][k]]_vars

C22_UpdateWrites ==
    n_requests < MaxRequests =>
      \A user \in Users, conversation_id \in IdArgs, last_is_assistant \in BOOLEAN,
         has_tool \in BOOLEAN, supplied \in IdArgs \ {0} :
         CanUpdate(conversation_id, last_is_assistant, has_tool, supplied) =>
           \A later \in Laters(conversation_id, last_is_assistant, has_tool) :
             LET r == update_conversation(Book, user, conversation_id, last_is_assistant,
                                          has_tool, supplied, clock, later)
                 after == r.book.items
             IN  IF conversation_id = 0 \/ ~last_is_assistant
                 THEN r.status = 500 /\ after = items
                 ELSE /\ r.status = 200
                      /\ IsMessage(after[supplied])
                      /\ after[supplied].role = "assistant"
                      /\ after[supplied].userId = user
                      /\ after[supplied].conversationId = conversation_id
                      /\ has_tool =>
                            \E tool_id \in Ids \ {supplied} :
                               /\ ~Exists(items, tool_id)
                               /\ IsMessage(after[tool_id])
                               /\ after[tool_id].role = "tool"
                               /\ after[tool_id].conversationId = conversation_id
                               /\ after[tool_id].createdAt <= after[supplied].createdAt
                      /\ \A id \in Ids \ {supplied, conversation_id} :
                            Exists(items, id) => after[id] = items[id]

C22_Witness ==
    /\ last.op = "update" /\ last.status = 200
    /\ \E tool_id, supplied \in Ids :
          /\ IsMessage(items[tool_id]) /\ items[tool_id].role = "tool"
          /\ IsMessage(items[supplied]) /\ items[supplied].role = "assistant"
          /\ items[tool_id].conversationId = items[supplied].conversationId
          /\ items[tool_id].createdAt < items[supplied].createdAt

\* ------------------------------------------- claims C23 to C27: one request
\* conversation_internal takes the streaming or the buffered path, by the
\* setting azure_openai.stream.
InitConversation == InitStream \/ InitBuffered

NextConversation == NextStream \/ NextBuffered

SpecConversation == InitConversation /\ [][NextConversation]_vars

\* C23: when a provider call made before the response has begun (the first
\* call of the streaming path, either call of the buffered path) raises, the
\* client is answered with the exception's status code, or with 500 when it
\* has none, and the request ends there: no chunk has been sent and no
\* completion result is returned.
C23_ProviderErrorStatus ==
    [][/\ \A catalog_ok \in BOOLEAN, provider \in Raises :
            (\/ StreamSend(catalog_ok, provider)
             \/ BufferedSend(catalog_ok, provider)
             \/ BufferedResend(catalog_ok, provider))
               => /\ pc' = "failed"
                  /\ "status_code" \in DOMAIN provider => http_status' = provider.status_code
                  /\ "status_code" \notin DOMAIN provider => http_status' = 500
                  /\ emitted' = <<>>
       /\ pc = "failed" => UNCHANGED vars]_vars

C23_Witness ==
    /\ pc = "failed"
    /\ http_status = 429
    /\ Len(requests) = 2
    /\ Len(responses) = 1
    /\ emitted = <<>>

FailedInvocations == {i \in 1..Len(tool_log) : tool_log[i].outcome = "http_error"}

\* C24: once the function-execution endpoint has answered a tool invocation
\* with a non-success status, the request has stopped, in the streaming and in
\* the buffered path alike: the failing invocation is the last one made, only
\* the first provider request has been sent, and the request's message list is
\* the client's, with no assistant or function message added.
C24_ToolFailureStops ==
    FailedInvocations # {} =>
       /\ FailedInvocations = {Len(tool_log)}
       /\ pc \in {"failed", "raised"}
       /\ Len(requests) = 1
       /\ request_messages = FilterToolMessages(client_messages)
       /\ pc = "failed" => http_status = 500

\* The first of two tool calls has been answered and the second has failed.
C24_Witness ==
    /\ Len(tool_log) = 2
    /\ tool_log[1].outcome = "ok"
    /\ tool_log[2].outcome = "http_error"
    /\ streaming_state = "STREAMING"
    /\ function_messages # <<>>

LastRole(messages) == IF messages = <<>> THEN None ELSE messages[Len(messages)].role

\* C25: a provider request carries the tool catalog only if its built message
\* list ends with a user message, function calling is enabled and the catalog
\* it carries is not empty; every request after the first, sent after tool
\* execution, ends with a function result and carries neither the catalog nor
\* the retrieval-augmentation parameters.
C25_ToolsOnlyForUserTurn ==
    \A k \in 1..Len(requests) :
       /\ requests[k].has_tools =>
             /\ LastRole(requests[k].messages) = "user"
             /\ fc_enabled
             /\ requests[k].tools # <<>>
       /\ k > 1 =>
             /\ LastRole(requests[k].messages) = "function"
             /\ ~requests[k].has_tools
             /\ requests[k].tools = <<>>
             /\ ~requests[k].has_extra_body

\* A first request that carried the catalog, and the follow-up request of a
\* deployment with a datasource whose catalog is still non-empty.
C25_Witness ==
    /\ Len(requests) = 2
    /\ requests[1].has_tools
    /\ requests[1].has_extra_body
    /\ LastRole(requests[2].messages) = "function"
    /\ azure_openai_tools # <<>>
    /\ datasource

RoleAndContent(messages) ==
    [i \in 1..Len(messages) |-> [role |-> messages[i].role, content |-> messages[i].content]]

\* The messages of request k behind the system message that leads the list
\* when no datasource is configured.
BuiltFromClient(k) ==
    IF datasource THEN requests[k].messages ELSE Tail(requests[k].messages)

Submitted(roles) == RoleAndContent(SelectSeq(client_messages, LAMBDA m : m.role \in roles))

StartsWith(messages, prefix) ==
    /\ Len(messages) >= Len(prefix)
    /\ SubSeq(messages, 1, Len(prefix)) = prefix

\* C26 as amended: every client message with role user, assistant or function
\* is in the message list of every provider request with its role and
\* content, in the order submitted and behind the system message if there is
\* one, none dropped, duplicated or reordered; the first request holds nothing
\* else, and the client's messages with role tool are in no request.
C26_NonToolMessagesCopied ==
    \A k \in 1..Len(requests) :
       /\ ~datasource => Head(requests[k].messages) = SystemMessage
       /\ StartsWith(RoleAndContent(BuiltFromClient(k)),
                     Submitted({"user", "assistant", "function"}))
       /\ k = 1 => Len(BuiltFromClient(k)) = Len(Submitted({"user", "assistant", "function"}))
       /\ \A i \in 1..Len(requests[k].messages) : requests[k].messages[i].role # "tool"

\* C26: every client message with role user, assistant, function or tool is
\* in the message list of the provider request with its role and content, in
\* the order submitted and behind the system message if there is one.
C26_EveryMessageCopied ==
    \A k \in 1..Len(requests) :
       StartsWith(RoleAndContent(BuiltFromClient(k)),
                  Submitted({"user", "assistant", "function", "tool"}))

\* A follow-up request has been built from a history that held a message of
\* each role.
C26_Witness ==
    /\ Len(requests) = 2
    /\ \A role \in {"user", "assistant", "function", "tool"} :
          \E i \in 1..Len(client_messages) : client_messages[i].role = role
    /\ Len(BuiltFromClient(2)) > Len(Submitted({"user", "assistant", "function"}))

\* C27: no step of a completion, in the streaming or in the buffered path,
\* writes the conversation store: the stored conversations and messages, and
\* everything else the store handlers keep, are as they were, whatever chunks
\* arrive and wherever the stream ends.
C27_CompletionWritesNothing ==
    [][items' = items /\ UNCHANGED storeVars]_vars

\* The stream has ended while a tool call was being accumulated: nothing was
\* invoked and nothing was sent.
C27_Witness ==
    /\ pc = "done"
    /\ streaming_state = "STREAMING"
    /\ current_tool_call # <<>>
    /\ tool_log = <<>>
    /\ emitted = <<>>
    /\ \A id \in Ids : items[id] = NoItem

\* ---------------------------- create_message, one store call at a time, by
\* requests that overlap (cosmosdbservice.py 156-181)
Conversations == {id \in Ids : IsConversation(items[id])}

\* create_conversation (the client method), in one step: the conversation
\* the appends are made to.
CreateConversation(user) ==
    /\ Conversations = {}
    /\ items' = upsert_item(items, create_conversation(uuid4(used), user, "title", clock))
    /\ used' = used \cup {uuid4(used)}
    /\ n_requests' = n_requests + 1
    /\ UNCHANGED <<chatVars, streamVars, bufferedVars, redactVars, serveVars, stepVars, clock,
                   enable_message_feedback, last, last_append, n_appends, any_delete,
                   all_fresh>>

\* create_message is called: the message is built, with createdAt read from
\* the clock, under an id that no item and no other call has.
AppendBegin(s, user, conversation_id) ==
    /\ appending[s].at = "idle"
    /\ Ids \ used # {}
    /\ appending' = [appending EXCEPT ![s] =
                        [NotAppending EXCEPT !.at = "write", !.user = user,
                                             !.conversation_id = conversation_id,
                                             !.message = <<NewMessage(uuid4(used), conversation_id,
                                                                      user, "user", clock)>>]]
    /\ used' = used \cup {uuid4(used)}
    /\ UNCHANGED <<chatVars, streamVars, bufferedVars, redactVars, serveVars, running, renaming, items,
                   clock, enable_message_feedback, last, last_append, n_appends, n_requests,
                   any_delete, all_fresh>>

\* A create_message that puts the message aside and stores nothing.
AppendWriteLost(s) ==
    /\ appending[s].at = "write"
    /\ appending' = [appending EXCEPT ![s].at = "read"]
    /\ UNCHANGED <<chatVars, streamVars, bufferedVars, storeVars, redactVars, serveVars,
                   running, renaming>>

\* "resp = await self.container_client.upsert_item(message)"
AppendWrite(s) ==
    /\ appending[s].at = "write"
    /\ items' = upsert_item(items, appending[s].message[1])
    /\ appending' = [appending EXCEPT ![s].at = "read"]
    /\ UNCHANGED <<chatVars, streamVars, bufferedVars, redactVars, serveVars, running, renaming, clock,
                   enable_message_feedback, used, last, last_append, n_appends, n_requests,
                   any_delete, all_fresh>>

\* "conversation = await self.get_conversation(user_id, conversation_id)"
AppendRead(s) ==
    /\ appending[s].at = "read"
    /\ LET conversation == get_conversation(items, appending[s].user,
                                            appending[s].conversation_id)
       IN  appending' = [appending EXCEPT ![s] =
                            IF conversation = <<>>
                            THEN [@ EXCEPT !.at = "done", !.resp = "Conversation not found"]
                            ELSE [@ EXCEPT !.at = "update", !.conversation = conversation]]
    /\ UNCHANGED <<chatVars, streamVars, bufferedVars, storeVars, redactVars, serveVars,
                   running, renaming>>

\* An update that never takes the timestamp of the conversation back.
StampedNotEarlier(its, conversation, message) ==
    LET stored == its[conversation.id]
        at == IF IsConversation(stored) /\ stored.updatedAt > message.createdAt
              THEN stored.updatedAt ELSE message.createdAt
    IN  [conversation EXCEPT !.updatedAt = at]

\* "conversation['updatedAt'] = message['createdAt']": the copy that was read
\* is changed, whatever the container holds by now.
Stamped(its, conversation, message) == [conversation EXCEPT !.updatedAt = message.createdAt]

\* "await self.upsert_conversation(conversation)"
AppendUpdate(s) ==
    /\ appending[s].at = "update"
    /\ items' = upsert_item(items, Stamped(items, appending[s].conversation[1],
                                           appending[s].message[1]))
    /\ appending' = [appending EXCEPT ![s].at = "done", ![s].resp = "ok"]
    /\ UNCHANGED <<chatVars, streamVars, bufferedVars, redactVars, serveVars, running, renaming, clock,
                   enable_message_feedback, used, last, last_append, n_appends, n_requests,
                   any_delete, all_fresh>>

\* The call does not go on: the process stops, the task is cancelled, or the
\* store call it is waiting for raises. stopped: the store call it had come to.
AppendInterrupt(s) ==
    /\ appending[s].at \in {"write", "read", "update"}
    /\ appending' = [appending EXCEPT ![s].at = "interrupted", ![s].stopped = appending[s].at]
    /\ UNCHANGED <<chatVars, streamVars, bufferedVars, storeVars, redactVars, serveVars,
                   running, renaming>>

InitAppend == InitStore

NextAppend ==
    \/ Tick
    \/ \E user \in Users : CreateConversation(user)
    \/ \E s \in Slots, user \in Users, conversation_id \in Conversations :
         AppendBegin(s, user, conversation_id)
    \/ \E s \in Slots : AppendWrite(s)
    \/ \E s \in Slots : AppendRead(s)
    \/ \E s \in Slots : AppendUpdate(s)
    \/ \E s \in Slots : AppendInterrupt(s)

SpecAppend == InitAppend /\ [][NextAppend]_vars

MessageOf(s) == appending[s].message[1]

Completed(s) == appending[s].at = "done" /\ appending[s].resp = "ok"

\* C28: the conversation update of an append writes the createdAt of its own
\* message into the conversation it read, whatever updatedAt the container
\* holds by then (the last writer wins), and the messages of the appends that
\* have completed are all stored; so two overlapping appends can both complete
\* and leave the conversation with the createdAt of the older message.
C28_LastWriterWins ==
    [][/\ \A s \in Slots :
            AppendUpdate(s) =>
               /\ IsConversation(items'[appending[s].conversation_id])
               /\ items'[appending[s].conversation_id].updatedAt = MessageOf(s).createdAt
       /\ \A s \in Slots :
            Completed(s)' => items'[MessageOf(s).id] = MessageOf(s)]_vars

\* Both appends have completed, both messages are stored, and the
\* conversation carries the createdAt of the older one.
C28_Witness ==
    \E s, t \in Slots :
       /\ Completed(s) /\ Completed(t)
       /\ appending[s].conversation_id = appending[t].conversation_id
       /\ MessageOf(s).createdAt < MessageOf(t).createdAt
       /\ items[MessageOf(s).id] = MessageOf(s)
       /\ items[MessageOf(t).id] = MessageOf(t)
       /\ items[appending[s].conversation_id].updatedAt = MessageOf(s).createdAt

Listed(s, its) ==
    LET messages == get_messages(its, appending[s].user, appending[s].conversation_id)
    IN  \E i \in 1..Len(messages) : messages[i] = MessageOf(s)

\* C29: an append that is interrupted after its message write and before its
\* conversation update leaves the message stored and returned by get_messages
\* for the conversation, and never writes the conversation, whose updatedAt
\* stays as it was; the interruption itself changes no item, and no step of
\* an append removes or alters a message that is stored.
C29_InterruptedAppend ==
    /\ [](\A s \in Slots :
            (appending[s].at = "interrupted" /\ appending[s].stopped \in {"read", "update"})
               => Listed(s, items))
    /\ [][/\ \A s \in Slots : AppendInterrupt(s) => items' = items
          /\ \A s \in Slots :
               (appending[s].at = "interrupted") => appending'[s] = appending[s]
          /\ \A id \in Ids : IsMessage(items[id]) => items'[id] = items[id]]_vars

\* The only append was interrupted before its conversation update: its
\* message is listed and the conversation's updatedAt is older than it.
C29_Witness ==
    \E s \in Slots :
       /\ appending[s].at = "interrupted"
       /\ appending[s].stopped \in {"read", "update"}
       /\ \A t \in Slots \ {s} : appending[t].at = "idle"
       /\ Listed(s, items)
       /\ IsConversation(items[appending[s].conversation_id])
       /\ items[appending[s].conversation_id].updatedAt < MessageOf(s).createdAt

\* The fields of AzureOpenaiFunctionCallStreamState.
StreamState == <<tool_calls, tool_name, tool_arguments_stream, current_tool_call,
                 function_messages, streaming_state>>

\* C30: streaming_state changes only from INITIAL to STREAMING and from
\* STREAMING to COMPLETED; once it is COMPLETED no field of the accumulator
\* changes and no tool is invoked, whatever chunks are processed.
C30_StreamingStateMachine ==
    [][/\ streaming_state' # streaming_state =>
             \/ streaming_state = "INITIAL" /\ streaming_state' = "STREAMING"
             \/ streaming_state = "STREAMING" /\ streaming_state' = "COMPLETED"
       /\ streaming_state = "COMPLETED" =>
             /\ UNCHANGED StreamState
             /\ tool_log' = tool_log]_vars

\* A chunk that carries tool-call fragments has been processed in COMPLETED.
C30_Witness ==
    /\ streaming_state = "COMPLETED"
    /\ pc = "dispatch"
    /\ stream_state = "COMPLETED"
    /\ completionChunk.tool_calls # <<>>
    /\ Len(requests) >= 2

\* ------------------------------------------------- claims C31, C32: flushes
\* The provider streamed at least one call, every fragment belongs to a call,
\* and the argument text of every call is JSON.
WellStreamed ==
    /\ intended.wellformed
    /\ intended.calls # <<>>
    /\ \A i \in 1..Len(intended.calls) : json_loads_ok(intended.calls[i].tool_arguments)

\* C31: when the accumulator is STREAMING and a delta without tool-call
\* fragments arrives, the in-progress call is appended last to tool_calls,
\* every accumulated call is invoked once, in order, function_messages ends
\* with two entries per call (assistant call descriptor, then function
\* result) and the state becomes COMPLETED. Stated for a stream whose calls
\* carry JSON arguments and an endpoint that answers every invocation.
C31_CompletionInvokesAll ==
    [][(/\ pc = "process"
        /\ completionChunk.has_choices
        /\ completionChunk.tool_calls_none
        /\ streaming_state = "STREAMING"
        /\ WellStreamed
        /\ \A i \in 1..Len(tool_log') : tool_log'[i].outcome # "http_error")
          => /\ streaming_state' = "COMPLETED"
             /\ Len(tool_calls') = Len(tool_calls) + 1
             /\ SubSeq(tool_calls', 1, Len(tool_calls)) = tool_calls
             /\ tool_calls'[Len(tool_calls')].tool_id = current_tool_call[1].tool_id
             /\ Len(tool_log') = Len(tool_log) + Len(tool_calls')
             /\ \A i \in 1..Len(tool_calls') :
                   /\ tool_log'[Len(tool_log) + i].name = tool_calls'[i].tool_name
                   /\ tool_log'[Len(tool_log) + i].arguments = tool_calls'[i].tool_arguments
             /\ Len(function_messages') = 2 * Len(tool_calls')
             /\ \A i \in 1..Len(tool_calls') :
                   /\ function_messages'[2 * i - 1].role = "assistant"
                   /\ function_messages'[2 * i - 1].function_call.name = tool_calls'[i].tool_name
                   /\ function_messages'[2 * i].role = "function"
                   /\ function_messages'[2 * i].tool_call_id = tool_calls'[i].tool_id]_vars

\* C32: when a fragment with a call identifier arrives while a call is
\* accumulating, the flushed call is appended to tool_calls with exactly the
\* argument text the provider streamed for it (the text of its fragments in
\* arrival order, none of the text of the fragment that starts the new call),
\* and the buffer is empty afterwards.
C32_FlushOnNewIdentifier ==
    [][(/\ pc = "process"
        /\ completionChunk.has_choices
        /\ streaming_state = "STREAMING"
        /\ Len(completionChunk.tool_calls) = 1
        /\ completionChunk.tool_calls[1].id # ""
        /\ current_tool_call # <<>>
        /\ intended.wellformed)
          => /\ tool_calls' = Append(tool_calls,
                                     WithArguments(current_tool_call[1],
                                         intended.calls[Len(intended.calls)].tool_arguments))
             /\ tool_arguments_stream' = <<>>]_vars

\* ------------------------ /history/rename, one store call at a time, while
\* a delete and appends are under way (app.py 1410-1450)
\* rename_conversation up to its write: the checks of the request and
\* "conversation = await ...get_conversation(user_id, conversation_id)".
RenameBegin(user, conversation_id, title) ==
    /\ renaming.at = "idle"
    /\ LET conversation == get_conversation(items, user, conversation_id)
           request == [NotRenaming EXCEPT !.user = user, !.conversation_id = conversation_id,
                                          !.title = title]
       IN  renaming' = IF conversation_id = 0
                       THEN [request EXCEPT !.at = "done", !.status = 400]
                       ELSE IF conversation = <<>>
                       THEN [request EXCEPT !.at = "done", !.status = 404]
                       ELSE IF title = ""
                       THEN [request EXCEPT !.at = "done", !.status = 400]
                       ELSE [request EXCEPT !.at = "write", !.conversation = conversation]
    /\ UNCHANGED <<chatVars, streamVars, bufferedVars, storeVars, redactVars, serveVars,
                   running, appending>>

\* A rename that writes only when the record is still in the container.
RenameWriteIfPresent ==
    /\ renaming.at = "write"
    /\ items' = IF IsConversation(items[renaming.conversation_id])
                THEN upsert_item(items, Renamed(renaming.conversation[1], renaming.title))
                ELSE items
    /\ renaming' = [renaming EXCEPT !.at = "done", !.status = 200]
    /\ UNCHANGED <<chatVars, streamVars, bufferedVars, redactVars, serveVars, running,
                   appending, clock, enable_message_feedback, used, last, last_append,
                   n_appends, n_requests, any_delete, all_fresh>>

\* A rename that sets the title of the record the container holds by now.
RenameWriteMerged ==
    /\ renaming.at = "write"
    /\ items' = IF IsConversation(items[renaming.conversation_id])
                THEN upsert_item(items, Renamed(items[renaming.conversation_id], renaming.title))
                ELSE upsert_item(items, Renamed(renaming.conversation[1], renaming.title))
    /\ renaming' = [renaming EXCEPT !.at = "done", !.status = 200]
    /\ UNCHANGED <<chatVars, streamVars, bufferedVars, redactVars, serveVars, running,
                   appending, clock, enable_message_feedback, used, last, last_append,
                   n_appends, n_requests, any_delete, all_fresh>>

\* conversation["title"] = title; "await ...upsert_conversation(conversation)":
\* the copy that was read is written, whatever the container holds by now.
RenameWrite ==
    /\ renaming.at = "write"
    /\ items' = upsert_item(items, Renamed(renaming.conversation[1], renaming.title))
    /\ renaming' = [renaming EXCEPT !.at = "done", !.status = 200]
    /\ UNCHANGED <<chatVars, streamVars, bufferedVars, redactVars, serveVars, running,
                   appending, clock, enable_message_feedback, used, last, last_append,
                   n_appends, n_requests, any_delete, all_fresh>>

InitRename == InitStore

\* One conversation, one rename, one delete and one append at a time, their
\* store calls interleaved in every order.
NextRename ==
    \/ Tick
    \/ \E user \in Users : used = {} /\ CreateConversation(user)
    \/ \E user \in Users, conversation_id \in Conversations \cup {0}, title \in Titles :
         RenameBegin(user, conversation_id, title)
    \/ RenameWrite
    \/ \E user \in Users, conversation_id \in Conversations : AppendBegin(1, user, conversation_id)
    \/ AppendWrite(1)
    \/ AppendRead(1)
    \/ AppendUpdate(1)
    \/ \E user \in Users, conversation_id \in Conversations : DeleteBegin(user, conversation_id)
    \/ ListMessages
    \/ \E ok \in BOOLEAN : DeleteMessage(ok)
    \/ \E ok \in BOOLEAN : DeleteRecord(ok)

SpecRename == InitRename /\ [][NextRename]_vars

\* The delete request has answered with success.
Deleted == running.route = "delete" /\ running.at = "done" /\ running.status = 200

\* C33: the write of a rename upserts the copy of the conversation it read,
\* with the new title, whether or not the container still holds the record;
\* so a rename that read the conversation before a delete of it completed
\* re-creates the record, and a state is reachable where the delete has
\* answered with success and the record, with the new title and no message,
\* is in the container.
C33_RenameRecreates ==
    [][RenameWrite =>
          /\ IsConversation(items'[renaming.conversation_id])
          /\ items'[renaming.conversation_id] = Renamed(renaming.conversation[1], renaming.title)
          /\ \A id \in Ids \ {renaming.conversation_id} : items'[id] = items[id]]_vars

\* The delete answered 200 and removed the record, the rename then wrote it
\* back: it is stored with the new title, and none of its messages is.
C33_Witness ==
    /\ Deleted
    /\ renaming.at = "done" /\ renaming.status = 200
    /\ Current = renaming.conversation_id
    /\ IsConversation(items[Current])
    /\ items[Current].title = renaming.title
    /\ appending[1].at = "done" /\ appending[1].resp = "ok"
    /\ \A id \in Ids : ~ IsMessage(items[id])

\* C34: a rename writes back the updatedAt it read and an append writes back
\* the title it read, each whatever the container holds by then; so when a
\* rename and an append to the same conversation overlap, both can complete
\* and leave the conversation with an updatedAt older than the createdAt of
\* its newest message, or with the title it had before the rename.
C34_RenameAppendOverwrite ==
    [][/\ RenameWrite =>
            /\ items'[renaming.conversation_id].updatedAt = renaming.conversation[1].updatedAt
            /\ items'[renaming.conversation_id].title = renaming.title
       /\ AppendUpdate(1) =>
            /\ items'[appending[1].conversation_id].title = appending[1].conversation[1].title
            /\ items'[appending[1].conversation_id].updatedAt = MessageOf(1).createdAt]_vars

\* Rename and append have both completed, no delete was made, the message is
\* stored, and the conversation's updatedAt is older than its createdAt.
C34_Witness ==
    /\ renaming.at = "done" /\ renaming.status = 200
    /\ Completed(1)
    /\ appending[1].conversation_id = renaming.conversation_id
    /\ running.at = "idle"
    /\ items[MessageOf(1).id] = MessageOf(1)
    /\ items[renaming.conversation_id].title = renaming.title
    /\ items[renaming.conversation_id].updatedAt < MessageOf(1).createdAt

\* The same two requests, the other way round: the append wrote last, and
\* the conversation has the title it had before the rename.
C34_TitleUndone ==
    /\ renaming.at = "done" /\ renaming.status = 200
    /\ Completed(1)
    /\ appending[1].conversation_id = renaming.conversation_id
    /\ running.at = "idle"
    /\ items[renaming.conversation_id].title # renaming.title
    /\ items[renaming.conversation_id].updatedAt = MessageOf(1).createdAt

\* ------------------------------------------------- claim C35: orphan messages
\* No conversation with this id belongs to the caller: there is none, or it
\* is another user's.
NoneOfCaller(its, user, conversation_id) == get_conversation(its, user, conversation_id) = <<>>

\* C35: create_message writes the message before it looks for the parent
\* conversation: a call that names a conversation that does not exist or is
\* another user's leaves the message stored and returns "Conversation not
\* found"; /history/update drops that result and answers 200, and
\* /history/generate answers 500, in both cases with the message stored.
C35_WriteBeforeCheck ==
    /\ [](n_requests < MaxRequests =>
            \A user \in Users, conversation_id \in IdArgs \ {0}, supplied \in IdArgs \ {0} :
               NoneOfCaller(items, user, conversation_id) =>
                  LET c == create_message(items, supplied, conversation_id, user, "user", clock)
                      r == update_conversation(Book, user, conversation_id, TRUE, FALSE,
                                               supplied, clock, clock)
                  IN  /\ c.resp = "Conversation not found"
                      /\ c.items = upsert_item(items, NewMessage(supplied, conversation_id,
                                                                 user, "user", clock))
                      /\ r.status = 200
                      /\ r.book.resp = "Conversation not found"
                      /\ r.book.items = upsert_item(items, NewMessage(supplied, conversation_id,
                                                                      user, "assistant", clock)))
    /\ [][(n_requests' = n_requests + 1 /\ last'.op = "generate") =>
            \A user \in Users, conversation_id \in IdArgs \ {0}, completion \in {200, 500} :
               (/\ NoneOfCaller(items, user, conversation_id)
                /\ HistoryGenerate(user, conversation_id, TRUE, completion))
                  => /\ last'.status = 500
                     /\ items' = upsert_item(items, NewMessage(uuid4(used \cup {conversation_id}),
                                                               conversation_id, user, "user",
                                                               clock))]_vars

\* No conversation was ever stored and nothing was deleted; a generate
\* request left a user message, and the update request answered last, with
\* 200, left an assistant message for the same missing conversation.
C35_Witness ==
    /\ last.op = "update" /\ last.status = 200
    /\ ~any_delete
    /\ \A id \in Ids : ~IsConversation(items[id])
    /\ \E first, second \in Ids :
          /\ IsMessage(items[first]) /\ items[first].role = "user"
          /\ IsMessage(items[second]) /\ items[second].role = "assistant"
          /\ items[first].conversationId = items[second].conversationId

\* ------------------------------------------------- claim C36: ids are keys
Stored(its) == {id \in Ids : Exists(its, id)}

\* C36: the container holds one item per id and create_message upserts, so
\* an append under the id of an item that is stored replaces that item by the
\* new message, none of its fields kept (role, owner, conversation,
\* timestamps, feedback, or title when it was a conversation), and the number
\* of stored items does not grow; a /history/update request that submits an
\* assistant message id that is stored adds no item for it.
C36_AppendReplaces ==
    \A uuid \in Stored(items), user \in Users, conversation_id \in Ids :
       /\ LET c == create_message(items, uuid, conversation_id, user, "assistant", clock).items
          IN  /\ c[uuid] = NewMessage(uuid, conversation_id, user, "assistant", clock)
              /\ "feedback" \in DOMAIN c[uuid] => c[uuid].feedback = ""
              /\ \A id \in Ids \ {uuid} :
                    /\ Exists(c, id) <=> Exists(items, id)
                    /\ id # conversation_id => c[id] = items[id]
       /\ n_requests < MaxRequests =>
             LET r == update_conversation(Book, user, conversation_id, TRUE, FALSE, uuid,
                                          clock, clock)
             IN  /\ r.status = 200
                 /\ Stored(r.book.items) = Stored(items)
                 /\ IsMessage(r.book.items[uuid])
                 /\ r.book.items[uuid].role = "assistant"

\* A conversation that had a message appended to it was replaced by an
\* assistant message submitted under the conversation's id: nothing was
\* deleted, and the store holds two items.
C36_Witness ==
    /\ last.op = "update" /\ last.status = 200
    /\ ~any_delete
    /\ \E id \in Ids :
          /\ last_append[id] >= 0
          /\ IsMessage(items[id]) /\ items[id].role = "assistant"
    /\ Cardinality(Stored(items)) = 2

\* ------------------------------------------------- claim C37: the catalog
\* The request the step sends to the provider.
Sent == requests'[Len(requests')]

\* C37: the tool catalog changes only inside a send_chat_request, after the
\* request of that call has been built: a request carries tools only when
\* the catalog was loaded before the call (and function calling is enabled
\* and its last message is from the user), so the first request of a process
\* whose client was never initialised carries none, whatever the settings
\* and the messages, also when its own call loads the catalog.
C37_ToolsAfterInitialisation ==
    [][/\ azure_openai_tools' # azure_openai_tools => Len(requests') = Len(requests) + 1
       /\ Len(requests') = Len(requests) + 1 =>
            /\ Sent.has_tools <=> /\ azure_openai_tools # <<>>
                                  /\ fc_enabled
                                  /\ LastIsUser(Sent.messages)
            /\ Sent.tools = IF Sent.has_tools THEN azure_openai_tools ELSE <<>>
            /\ (requests = <<>> /\ azure_openai_tools = <<>>) => ~Sent.has_tools]_vars

\* Function calling is enabled and the first request ends with a user
\* message; it carries no tools, and its call has loaded the catalog.
C37_Witness ==
    /\ fc_enabled
    /\ Len(requests) >= 1
    /\ LastIsUser(requests[1].messages)
    /\ ~requests[1].has_tools
    /\ azure_openai_tools # <<>>

\* ------------------------------------------------- claim C38: the queries
\* C38: in every state of the container, get_conversation, get_conversations
\* and get_messages return to a caller only items whose userId is the
\* caller's; get_conversation only the conversation with the id asked for;
\* get_conversations only conversations, by descending updatedAt;
\* get_messages only messages of the conversation asked for, by ascending
\* createdAt.
C38_QueriesScoped ==
    \A user \in Users :
       /\ LET conversations == get_conversations(items, user)
          IN  /\ \A i \in 1..Len(conversations) :
                    /\ conversations[i].userId = user
                    /\ IsConversation(conversations[i])
                    /\ items[conversations[i].id] = conversations[i]
              /\ \A i \in 1..(Len(conversations) - 1) :
                    conversations[i].updatedAt >= conversations[i + 1].updatedAt
       /\ \A conversation_id \in Ids :
             LET conversation == get_conversation(items, user, conversation_id)
                 messages == get_messages(items, user, conversation_id)
             IN  /\ conversation # <<>> =>
                       /\ conversation[1].userId = user
                       /\ conversation[1].id = conversation_id
                       /\ IsConversation(conversation[1])
                 /\ \A i \in 1..Len(messages) :
                       /\ messages[i].userId = user
                       /\ messages[i].conversationId = conversation_id
                       /\ IsMessage(messages[i])
                       /\ items[messages[i].id] = messages[i]
                 /\ \A i \in 1..(Len(messages) - 1) :
                       messages[i].createdAt <= messages[i + 1].createdAt

\* The container holds messages of both users under one conversation id, the
\* conversation is one user's, and each user is returned their own message.
C38_Witness ==
    \E conversation_id \in Ids :
       /\ IsConversation(items[conversation_id])
       /\ \A user \in Users : Len(get_messages(items, user, conversation_id)) = 1
       /\ \E user \in Users : get_conversations(items, user) = <<>>

\* ------------------------------------------------- claim C39: continuation
\* C39: every chunk of the follow-up stream is yielded, in order, without
\* being handed to the accumulator: also when it carries tool-call fragments
\* it is emitted, no field of the accumulator changes, no tool is invoked,
\* no request is sent, and the chunk of the first stream and the state
\* returned for it stay as they were.
C39_ContinuationForwarded ==
    [][(pc = "continuation" /\ n_cont' # n_cont) =>
          /\ functionCompletionChunk' \in ContinuationChunks
          /\ emitted' = Append(emitted, [src |-> "continuation", idx |-> n_cont + 1,
                                         after |-> n_consumed])
          /\ n_cont' = n_cont + 1
          /\ StreamState' = StreamState
          /\ tool_log' = tool_log
          /\ requests' = requests
          /\ request_messages' = request_messages
          /\ completionChunk' = completionChunk
          /\ stream_state' = stream_state
          /\ pc' = "continuation"]_vars

\* A chunk with a tool-call fragment has just been yielded from the
\* follow-up stream: the accumulator is COMPLETED as before, and the tools
\* invoked are those of the first stream.
C39_Witness ==
    /\ pc = "continuation"
    /\ n_cont >= 1
    /\ functionCompletionChunk.tool_calls # <<>>
    /\ emitted # <<>>
    /\ emitted[Len(emitted)] = [src |-> "continuation", idx |-> n_cont, after |-> n_consumed]
    /\ streaming_state = "COMPLETED"
    /\ Len(tool_log) = Len(tool_calls)
    /\ Len(requests) = 2

====
